---- MODULE Spec2Model ----
(***************************************************************************)
(* Model of the binary-provisioning and instance-supervision subsystem of  *)
(* minio-for-tests.                                                        *)
(*                                                                         *)
(*   LockSpec    LockFile (lock / checkLock / waitForLock / createLock /   *)
(*               unlock / unlockCleanup) driven by MinioBinary.download,   *)
(*               for several callers in each of two OS processes sharing   *)
(*               one download directory.                                   *)
(*   ServerSpec  MinioServer (start / stop / cleanup) supervising          *)
(*               MinioInstance objects, their server and reaper child      *)
(*               processes, and killProcess.                               *)
(*   PortSpec    MinioServer used sequentially (every call awaited): the   *)
(*               port start() selects, the port the server process binds   *)
(*               and what getUri returns.                                  *)
(*   LocateSpec  DryMinioBinary.generateDownloadPath and locateBinary      *)
(*               applied to a request, the configuration and the files on  *)
(*               disk.                                                     *)
(*   UrlSpec     MinioBinaryDownloadUrl: the constructor (translatePlatform,*)
(*               translateArch) and getRhelVersionString.                  *)
(*   InstanceSpec MinioInstance (start, stop, the event handlers) and      *)
(*               killProcess under a supervisor whose program calls        *)
(*               start(), stop() and cleanup() (never ensureInstance), the *)
(*               server process writing readiness lines at any time.       *)
(***************************************************************************)
EXTENDS Naturals, Integers, Sequences, FiniteSets, TLC

(***************************************************************************)
(* Bounds                                                                  *)
(***************************************************************************)
\* concurrent MinioBinary.download callers inside the main process
MaxCallers == 2
\* calls of the MinioServer API (start, stop) made by the embedding program
MaxStarts == 2
MaxStops == 1
MaxEnsures == 1
\* ensureInstance() calls made concurrently on one supervisor
MaxConcurrent == 3
\* stateChange notifications kept for inspection
NotesKept == 2
\* stop() executions started by the instanceError listener that may be in flight
MaxListeners == 1
\* TCP ports of the host
MaxPort == 3

(***************************************************************************)
(* LockFile / MinioBinary: state                                           *)
(***************************************************************************)
VARIABLES
    alive,        \* alive[p]: the OS process p still runs (utils.isAlive)
    lockContent,  \* the marker file <downloadDir>/<version>.lock: NoFile or "<pid> <uuid>"
    files,        \* files[inst]: the "files" Set of LockFile instance inst
    mutexOwner,   \* mutexOwner[p]: caller inside lockFile.mutex.runExclusive, or 0
    handle,       \* handle[p][c]: the LockFile(file, uuid) that createLock returned to c
    pc,           \* pc[p][c]: where caller c of process p stands in getPath / download
    unlockStatus, \* unlockStatus[p][c]: what checkLock answered inside unlock()
    binaryCache,  \* binaryCache[p]: dryMinioBinary.binaryCache entry of the version
    binaryOnDisk, \* the extracted binary exists in the download directory
    httpBy,       \* callers that performed the HTTP download of the archive
    failed,       \* failed[p][c]: the error getMinioPath threw inside c's try block
    archive,      \* the downloaded archive file in the download directory
    result        \* result[p][c]: what MinioBinary.download returned or threw

lockVars == <<alive, lockContent, files, mutexOwner, handle, pc, unlockStatus,
              binaryCache, binaryOnDisk, httpBy, failed, archive, result>>

(***************************************************************************)
(* MinioServer / MinioInstance: state                                      *)
(***************************************************************************)
VARIABLES
    state,            \* MinioServer._state
    notes,            \* the stateChange notifications observers received, in order
    instanceInfo,     \* MinioServer._instanceInfo
    instCount,        \* MinioInstance objects constructed so far
    procs,            \* the child processes spawned so far, by pid
    minioProcess,     \* minioProcess[i]: MinioInstance.minioProcess (a pid, 0: undefined)
    killerProcess,    \* killerProcess[i]: MinioInstance.killerProcess
    isInstanceReady,  \* isInstanceReady[i]: MinioInstance.isInstanceReady
    staleTimers,      \* staleTimers[i]: launch timers start() left armed when it threw
    startPc,          \* where the start() call in flight stands
    startInst,        \* the MinioInstance the start() in flight works on
    startFresh,       \* the start() in flight found no _instanceInfo
    startFrom,        \* the state the start() in flight was called in
    startErr,         \* the error the catch handler of start() holds while it stops
    stops,            \* stops[s]: the MinioInstance.stop() execution of slot s
    stopPc,           \* where the stop() call of the embedding program stands
    stopOpts,         \* its cleanup options
    stopTargets,      \* the children its instance referenced when it was called
    startCalls,       \* start() calls made so far
    stopCalls,        \* stop() calls made so far
    ensurePc,         \* where the ensureInstance() call in flight stands
    ensureCalls,      \* ensureInstance() calls made so far
    ensured,          \* what ensureInstance() returned or threw in the last step
    ensures,          \* ensures[e]: the ensureInstance() call of concurrent caller e
    dataPathSupplied, \* opts.instance.dataPath was given
    dataPathExists,   \* the directory at opts.instance.dataPath exists
    tmpDirs,          \* the minio-tst- directories that exist, by the instance made for them
    event             \* what the last step reported to the embedding program

serverVars == <<state, notes, instanceInfo, instCount, procs, minioProcess,
                killerProcess, isInstanceReady, staleTimers, startPc, startInst, startFresh, startFrom,
                startErr, stops, stopPc, stopOpts, stopTargets, startCalls, stopCalls,
                ensurePc, ensureCalls, ensured, ensures,
                dataPathSupplied, dataPathExists, tmpDirs, event>>

(***************************************************************************)
(* MinioServer port selection: state                                       *)
(***************************************************************************)
VARIABLES
    optsPort,    \* opts.instance.port (-1: no MinioServer constructed yet, 0: absent)
    listenPort,  \* the port the server binary listens on when its arguments name none
    busy,        \* the ports other programs listen on
    portState,   \* MinioServer._state
    portInfo,    \* MinioServer._instanceInfo: defined or not, and its port
    instPort,    \* instanceOpts.port of the MinioInstance being started
    bound,       \* the port the server child process is bound to (0: no process)
    lastStart,   \* the last start(): forceSamePort, outcome, whether it found an
                 \* _instanceInfo (fresh: not), the port it wanted and whether
                 \* that was taken, and the port the run stopped before it reported
    uri          \* what getUri() returned or threw in the last step

portVars == <<optsPort, listenPort, busy, portState, portInfo, instPort, bound,
              lastStart, uri>>

(***************************************************************************)
(* DryMinioBinary: state                                                   *)
(***************************************************************************)
VARIABLES
    locPc,     \* "unset", then "set" (request and disk chosen), then the call made
    locReq,    \* the options, configuration values and disk a call works on
    dryCache,  \* DryMinioBinary.binaryCache entry of the requested version
    locOut     \* what generateDownloadPath or locateBinary returned or threw

locVars == <<locPc, locReq, dryCache, locOut>>

(***************************************************************************)
(* MinioBinaryDownloadUrl: state                                           *)
(***************************************************************************)
VARIABLES
    urlPc,    \* "unset", "constructed" or "threw" (constructor), "named" (distro string asked)
    urlOpts,  \* the options the constructor was given
    urlThis,  \* this.platform and this.arch, or the error the constructor threw
    urlOut    \* what getRhelVersionString returned or threw, and for which release

urlVars == <<urlPc, urlOpts, urlThis, urlOut>>

vars == <<lockVars, serverVars, portVars, locVars, urlVars>>

\* the two OS processes (their pids) that share the download directory
Procs == {1, 2}
\* the process whose concurrent callers are studied; the other one contends with one caller
MainProc == 1
Callers(p) == IF p = MainProc THEN 1 .. MaxCallers ELSE {1}

\* path.resolve(downloadDir, `${version}.lock`): one version, one path
LockPath == "version.lock"
\* the binary path getMinioPath returns for the version
BinPath == "downloadDir/minio"
Undefined == "undefined"
\* no uuid argument / no uuid field
NoUuid == <<0, 0>>
\* the marker file does not exist (stat / readFile answer ENOENT)
NoFile == [pid |-> 0, uuid |-> NoUuid]

\* LockFileStatus
available == "available"
availableInstance == "availableInstance"
lockedSelf == "lockedSelf"
lockedDifferent == "lockedDifferent"

\* The LockFile instances of process p: the module-level `lockFile` of
\* MinioBinary, and the instance createLock builds for each acquisition.
\* files, events and mutex are instance fields: each instance has its own.
Shared(p) == <<"lockFile", p, 0>>
Handle(p, c) == <<"handle", p, c>>
Instances == {Shared(p) : p \in Procs}
               \cup UNION {{Handle(p, c) : c \in Callers(p)} : p \in Procs}

\* uuidv4(): fresh for every acquisition (a caller acquires once)
NewUuid(p, c) == <<p, c>>

isAlive(p) == alive[p]

\* LockFile.checkLock(file, uuid) evaluated on instance inst of process p
checkLock(inst, p, uuid) ==
    IF lockContent = NoFile THEN available
    ELSE IF lockContent.pid = p
         THEN IF LockPath \notin files[inst] THEN available
              ELSE IF uuid # NoUuid
                   THEN IF uuid = lockContent.uuid THEN availableInstance
                                                   ELSE lockedSelf
                   ELSE lockedSelf
         ELSE IF isAlive(lockContent.pid) THEN lockedDifferent ELSE available

\* the instance on which lock(), waitForLock() and createLock() run for the
\* callers of process p, i.e. `this` inside them: the module-level lockFile
LockReceiver(p) == Shared(p)

\* the instance on which unlock() and unlockCleanup() run: the returned handle
UnlockReceiver(p, c) == Handle(p, c)

\* a caller holds the lock from the moment createLock hands it a handle
\* until its unlock() has finished
HoldingPcs == {"locked", "getMinioPath", "http", "extract", "unlock", "unlockCleanup"}
Holds(p, c) == pc[p][c] \in HoldingPcs

LockInit ==
    /\ alive = [p \in Procs |-> TRUE]
    /\ lockContent = NoFile
    /\ files = [i \in Instances |-> {}]
    /\ mutexOwner = [p \in Procs |-> 0]
    /\ handle = [p \in Procs |-> [c \in Callers(p) |-> [file |-> Undefined, uuid |-> NoUuid]]]
    /\ pc = [p \in Procs |-> [c \in Callers(p) |-> "idle"]]
    /\ unlockStatus = [p \in Procs |-> [c \in Callers(p) |-> Undefined]]
    /\ binaryCache = [p \in Procs |-> Undefined]
    /\ binaryOnDisk = FALSE
    /\ httpBy = {}
    /\ failed = [p \in Procs |-> [c \in Callers(p) |-> "none"]]
    /\ archive = "none"
    /\ result = [p \in Procs |-> [c \in Callers(p) |-> Undefined]]

\* caller c of process p moves on; the supervisor is not involved
Goto(p, c, where) ==
    /\ pc' = [pc EXCEPT ![p][c] = where]
    /\ UNCHANGED <<serverVars, portVars, locVars, urlVars>>

\* MinioBinary.download, called by getPath or directly, up to the call of
\* lockFile.lock
DownloadStart(p, c) ==
    /\ alive[p] /\ pc[p][c] \in {"idle", "download"}
    /\ Goto(p, c, "lock")
    /\ UNCHANGED <<alive, lockContent, files, mutexOwner, handle, unlockStatus,
                   binaryCache, binaryOnDisk, httpBy, failed, archive, result>>

\* the switch of lock() and of waitForLock() on the status checkLock returned
AfterCheck(p, c, status) ==
    IF status \in {lockedDifferent, lockedSelf}
    THEN Goto(p, c, "waitForLock")
    ELSE Goto(p, c, "createLock")

\* LockFile.lock: checkLock, then waitForLock or createLock
Lock(p, c) ==
    /\ alive[p] /\ pc[p][c] = "lock"
    /\ AfterCheck(p, c, checkLock(LockReceiver(p), p, NoUuid))
    /\ UNCHANGED <<alive, lockContent, files, mutexOwner, handle, unlockStatus,
                   binaryCache, binaryOnDisk, httpBy, failed, archive, result>>

\* waitForLock: the 3 second interval finds the lock available and resolves
WaitInterval(p, c) ==
    /\ alive[p] /\ pc[p][c] = "waitForLock"
    /\ checkLock(LockReceiver(p), p, NoUuid) = available
    /\ Goto(p, c, "recheck")
    /\ UNCHANGED <<alive, lockContent, files, mutexOwner, handle, unlockStatus,
                   binaryCache, binaryOnDisk, httpBy, failed, archive, result>>

\* waitForLock after the promise resolved: reassess, wait again or create
WaitRecheck(p, c) ==
    /\ alive[p] /\ pc[p][c] = "recheck"
    /\ AfterCheck(p, c, checkLock(LockReceiver(p), p, NoUuid))
    /\ UNCHANGED <<alive, lockContent, files, mutexOwner, handle, unlockStatus,
                   binaryCache, binaryOnDisk, httpBy, failed, archive, result>>

\* createLock without its registry test: every caller that gets the mutex writes
RegistryHasSkipped(p) == FALSE

\* createLock's test inside the mutex: is the path already in the registry
RegistryHas(p) == LockPath \in files[LockReceiver(p)]

\* createLock: enter mutex.runExclusive; RepeatError when the registry has the path
CreateLockEnter(p, c) ==
    /\ alive[p] /\ pc[p][c] = "createLock"
    /\ mutexOwner[p] = 0
    /\ IF RegistryHas(p)
       THEN /\ Goto(p, c, "waitForLock")
            /\ UNCHANGED mutexOwner
       ELSE /\ Goto(p, c, "writeFile")
            /\ mutexOwner' = [mutexOwner EXCEPT ![p] = c]
    /\ UNCHANGED <<alive, lockContent, files, handle, unlockStatus,
                   binaryCache, binaryOnDisk, httpBy, failed, archive, result>>

\* createLock: mkdir and writeFile(file, "<pid> <uuid>") while holding the mutex
CreateLockWrite(p, c) ==
    /\ alive[p] /\ pc[p][c] = "writeFile"
    /\ lockContent' = [pid |-> p, uuid |-> NewUuid(p, c)]
    /\ Goto(p, c, "filesAdd")
    /\ UNCHANGED <<alive, files, mutexOwner, handle, unlockStatus,
                   binaryCache, binaryOnDisk, httpBy, failed, archive, result>>

\* createLock: files.add, leave the mutex, return new LockFile(file, uuid)
CreateLockAdd(p, c) ==
    /\ alive[p] /\ pc[p][c] = "filesAdd"
    /\ files' = [files EXCEPT ![LockReceiver(p)] = @ \cup {LockPath},
                              ![Handle(p, c)] = {}]
    /\ mutexOwner' = [mutexOwner EXCEPT ![p] = 0]
    /\ handle' = [handle EXCEPT ![p][c] = [file |-> LockPath, uuid |-> NewUuid(p, c)]]
    /\ Goto(p, c, "locked")
    /\ UNCHANGED <<alive, lockContent, unlockStatus,
                   binaryCache, binaryOnDisk, httpBy, failed, archive, result>>

\* MinioBinary.download inside the lock: the version -> path cache check
CacheCheck(p, c) ==
    /\ alive[p] /\ pc[p][c] = "locked"
    /\ IF binaryCache[p] # Undefined
       THEN Goto(p, c, "unlock")
       ELSE Goto(p, c, "getMinioPath")
    /\ UNCHANGED <<alive, lockContent, files, mutexOwner, handle, unlockStatus,
                   binaryCache, binaryOnDisk, httpBy, failed, archive, result>>

\* MinioBinaryDownload.getMinioPath: an existing binary is used as it is
GetMinioPath(p, c) ==
    /\ alive[p] /\ pc[p][c] = "getMinioPath"
    /\ IF binaryOnDisk
       THEN /\ binaryCache' = [binaryCache EXCEPT ![p] = BinPath]
            /\ Goto(p, c, "unlock")
       ELSE /\ UNCHANGED binaryCache
            /\ Goto(p, c, "http")
    /\ UNCHANGED <<alive, lockContent, files, mutexOwner, handle, unlockStatus,
                   binaryOnDisk, httpBy, failed, archive, result>>

\* a getMinioPath that has installed the binary when makeMD5check throws
InstalledBeforeCheck(onDisk) == TRUE

\* the binary at the target path when makeMD5check throws: startDownload
\* checks before getMinioPath extracts, nothing was installed
InstalledAfterMismatch(onDisk) == onDisk

\* makeMD5check(url, archive): throws when checkMD5 is set and the MD5 of
\* the archive differs from the downloaded reference
Md5CheckFails(checkMD5, arch) == checkMD5 /\ arch = "differing"

\* getMinioPath without a binary at the target path: startDownload (the
\* HTTP GET of the archive unless an archive file is already there, then
\* makeMD5check), then extract, whose copyFile creates the file at the
\* target path. The GET throws, or it leaves an archive whose MD5 matches
\* the reference or differs from it
HttpDownload(p, c) ==
    /\ alive[p] /\ pc[p][c] = "http"
    /\ \E checkMD5 \in BOOLEAN : \E got \in {"none", "matching", "differing"} :
         LET fetch == archive = "none"
             arch == IF fetch THEN got ELSE archive
         IN /\ fetch \/ got = "none"
            /\ httpBy' = IF fetch THEN httpBy \cup {<<p, c>>} ELSE httpBy
            /\ IF arch = "none"
               THEN /\ failed' = [failed EXCEPT ![p][c] = "DownloadError"]
                    /\ archive' = "none"
                    /\ UNCHANGED <<binaryOnDisk, binaryCache>>
               ELSE IF Md5CheckFails(checkMD5, arch)
               THEN /\ failed' = [failed EXCEPT ![p][c] = "Md5CheckFailedError"]
                    /\ archive' = arch
                    /\ binaryOnDisk' = InstalledAfterMismatch(binaryOnDisk)
                    /\ UNCHANGED binaryCache
               ELSE /\ binaryOnDisk' = TRUE
                    /\ archive' = arch
                    /\ UNCHANGED <<failed, binaryCache>>
            /\ Goto(p, c, IF arch = "none" \/ Md5CheckFails(checkMD5, arch)
                          THEN "unlock" ELSE "extract")
    /\ UNCHANGED <<alive, lockContent, files, mutexOwner, handle, unlockStatus, result>>

\* getMinioPath after the copy: extract returns, the archive is unlinked,
\* the binary is found at the target path; download() stores the path in
\* the version -> path cache
ExtractDone(p, c) ==
    /\ alive[p] /\ pc[p][c] = "extract"
    /\ archive' = "none"
    /\ binaryCache' = [binaryCache EXCEPT ![p] = BinPath]
    /\ Goto(p, c, "unlock")
    /\ UNCHANGED <<alive, lockContent, files, mutexOwner, handle, unlockStatus,
                   binaryOnDisk, httpBy, failed, result>>

\* an unlock() that goes on to unlockCleanup whatever checkLock answered
UnlockProceedsAlways(status) == TRUE

\* the switch of unlock(): available and availableInstance lead to
\* unlockCleanup, lockedSelf and every other status throw
UnlockProceeds(status) == status \in {available, availableInstance}

\* the unlock() in progress is a second call on the handle
Again(p, c) == pc[p][c] \in {"unlockAgain", "unlockCleanupAgain"}

\* LockFile.unlock: return on an invalidated handle, else checkLock(file, uuid).
\* The first call is the one of MinioBinary.download, whose finally block
\* it leaves by returning or by throwing
Unlock(p, c) ==
    /\ alive[p] /\ pc[p][c] \in {"unlock", "unlockAgain"}
    /\ IF handle[p][c].file = Undefined
       THEN /\ Goto(p, c, IF Again(p, c) THEN "unlockedAgain" ELSE "return")
            /\ UNCHANGED <<unlockStatus, result>>
       ELSE LET status == checkLock(UnlockReceiver(p, c), p, handle[p][c].uuid) IN
            IF UnlockProceeds(status)
            THEN /\ unlockStatus' = [unlockStatus EXCEPT ![p][c] = status]
                 /\ Goto(p, c, IF Again(p, c) THEN "unlockCleanupAgain"
                                ELSE "unlockCleanup")
                 /\ UNCHANGED result
            ELSE IF Again(p, c)
            THEN /\ Goto(p, c, "threwAgain")
                 /\ UNCHANGED <<unlockStatus, result>>
            ELSE /\ result' = [result EXCEPT ![p][c] = "UnableToUnlockLockfileError"]
                 /\ Goto(p, c, "done")
                 /\ UNCHANGED unlockStatus
    /\ UNCHANGED <<alive, lockContent, files, mutexOwner, handle,
                   binaryCache, binaryOnDisk, httpBy, failed, archive>>

\* the instance whose emitter carries the unlock event of caller c's handle
UnlockEmitter(p, c) == UnlockReceiver(p, c)

\* the waiters of process p whose unlock listener is attached to emitter inst
Woken(p, inst) == {d \in Callers(p) : pc[p][d] = "waitForLock" /\ LockReceiver(p) = inst}

\* LockFile.unlockCleanup(fileio): unlink if asked, files.delete, emit unlock,
\* invalidate the handle
UnlockCleanup(p, c) ==
    /\ alive[p] /\ pc[p][c] \in {"unlockCleanup", "unlockCleanupAgain"}
    /\ IF unlockStatus[p][c] = availableInstance
       THEN lockContent' = NoFile
       ELSE UNCHANGED lockContent
    /\ files' = [files EXCEPT ![UnlockReceiver(p, c)] = @ \ {LockPath}]
    /\ pc' = [pc EXCEPT ![p] = [d \in Callers(p) |->
                 IF d = c THEN IF Again(p, c) THEN "unlockedAgain" ELSE "return"
                 ELSE IF d \in Woken(p, UnlockEmitter(p, c)) THEN "recheck"
                 ELSE pc[p][d]]]
    /\ handle' = [handle EXCEPT ![p][c] = [file |-> Undefined, uuid |-> NoUuid]]
    /\ unlockStatus' = [unlockStatus EXCEPT ![p][c] = Undefined]
    /\ UNCHANGED <<alive, mutexOwner, binaryCache, binaryOnDisk, httpBy, failed, archive, result>>
    /\ UNCHANGED <<serverVars, portVars, locVars, urlVars>>

\* MinioBinary.download after the finally block: rethrow, or return the cache path
DownloadReturn(p, c) ==
    /\ alive[p] /\ pc[p][c] = "return"
    /\ result' = [result EXCEPT ![p][c] =
                    IF failed[p][c] # "none" THEN failed[p][c]
                    ELSE IF binaryCache[p] = Undefined THEN "NoCachePathError"
                    ELSE binaryCache[p]]
    /\ Goto(p, c, "done")
    /\ UNCHANGED <<alive, lockContent, files, mutexOwner, handle, unlockStatus,
                   binaryCache, binaryOnDisk, httpBy, failed, archive>>

\* a locateBinary that only consults the cache of the process
locateBinaryCacheOnly(p) == binaryCache[p]

\* DryMinioBinary.locateBinary without a system binary: the cache entry of
\* the version, else the binary generateDownloadPath finds on disk
locateBinary(p) ==
    IF binaryCache[p] # Undefined THEN binaryCache[p]
    ELSE IF binaryOnDisk THEN BinPath
    ELSE Undefined

\* MinioBinary.getPath: the path locateBinary returns (a binary found on
\* disk is cached), else, with RUNTIME_DOWNLOAD, the call of download()
GetPath(p, c) ==
    /\ alive[p] /\ pc[p][c] = "idle"
    /\ LET binaryPath == locateBinary(p) IN
       IF binaryPath # Undefined
       THEN /\ binaryCache' = [binaryCache EXCEPT ![p] = binaryPath]
            /\ result' = [result EXCEPT ![p][c] = binaryPath]
            /\ Goto(p, c, "located")
       ELSE /\ Goto(p, c, "download")
            /\ UNCHANGED <<binaryCache, result>>
    /\ UNCHANGED <<alive, lockContent, files, mutexOwner, handle, unlockStatus,
                   binaryOnDisk, httpBy, failed, archive>>

\* unlock() is called once more on the handle download() has unlocked
UnlockAgain(p, c) ==
    /\ alive[p] /\ pc[p][c] = "done"
    /\ Goto(p, c, "unlockAgain")
    /\ UNCHANGED <<alive, lockContent, files, mutexOwner, handle, unlockStatus,
                   binaryCache, binaryOnDisk, httpBy, failed, archive, result>>

\* the contending process dies (its marker file, if any, stays behind)
Crash(p) ==
    /\ p # MainProc /\ alive[p]
    /\ alive' = [alive EXCEPT ![p] = FALSE]
    /\ UNCHANGED <<lockContent, files, mutexOwner, handle, pc, unlockStatus,
                   binaryCache, binaryOnDisk, httpBy, failed, archive, result>>
    /\ UNCHANGED <<serverVars, portVars, locVars, urlVars>>

CallerStep(p, c) ==
    \/ GetPath(p, c)
    \/ DownloadStart(p, c)
    \/ Lock(p, c)
    \/ WaitInterval(p, c)
    \/ WaitRecheck(p, c)
    \/ CreateLockEnter(p, c)
    \/ CreateLockWrite(p, c)
    \/ CreateLockAdd(p, c)
    \/ CacheCheck(p, c)
    \/ GetMinioPath(p, c)
    \/ HttpDownload(p, c)
    \/ ExtractDone(p, c)
    \/ Unlock(p, c)
    \/ UnlockCleanup(p, c)
    \/ DownloadReturn(p, c)
    \/ UnlockAgain(p, c)

LockNext ==
    \/ \E p \in Procs : \E c \in Callers(p) : CallerStep(p, c)
    \/ \E p \in Procs : Crash(p)

(***************************************************************************)
(* MinioServer / MinioInstance / killProcess                               *)
(***************************************************************************)
\* MinioServerStates
new == "new"
starting == "starting"
running == "running"
stopped == "stopped"

InstIds == 1 .. MaxStarts
UserSlot == <<"MinioServer.stop", 0>>
CatchSlot == <<"start.catch", 0>>
ListenerSlots == {<<"instanceError", n>> : n \in 1 .. MaxListeners}
Slots == {UserSlot, CatchSlot} \cup ListenerSlots

\* a MinioInstance.stop() execution: idle, or inside killProcess(target)
\* for its minioProcess or its killerProcess, after SIGINT or after SIGKILL
EnsureIds == 1 .. MaxConcurrent
NoEnsure == [pc |-> "none", res |-> "none", how |-> "none", inst |-> 0]
IdleStop == [phase |-> "idle", inst |-> 0, target |-> 0, sub |-> "none"]
NoInfo == [def |-> FALSE, inst |-> 0, tmpDir |-> FALSE]
NoOpts == [doCleanup |-> FALSE, force |-> FALSE]

\* what a step reported to its caller: the public method it began (call),
\* the method that settled (op) and how it settled (res)
Ev(call, op, res) == [call |-> call, op |-> op, res |-> res]
NoEvent == Ev("none", "none", "none")

ServerInit ==
    /\ state = new
    /\ notes = <<>>
    /\ instanceInfo = NoInfo
    /\ instCount = 0
    /\ procs = <<>>
    /\ minioProcess = [i \in InstIds |-> 0]
    /\ killerProcess = [i \in InstIds |-> 0]
    /\ isInstanceReady = [i \in InstIds |-> FALSE]
    /\ staleTimers = [i \in InstIds |-> 0]
    /\ startPc = "none"
    /\ startInst = 0
    /\ startFresh = FALSE
    /\ startFrom = "none"
    /\ startErr = "none"
    /\ stops = [s \in Slots |-> IdleStop]
    /\ stopPc = "none"
    /\ stopOpts = NoOpts
    /\ stopTargets = {}
    /\ startCalls = 0
    /\ stopCalls = 0
    /\ ensurePc = "none"
    /\ ensureCalls = 0
    /\ ensured = "none"
    /\ ensures = [e \in EnsureIds |-> NoEnsure]
    /\ dataPathSupplied \in BOOLEAN
    /\ dataPathExists = dataPathSupplied
    /\ tmpDirs = {}
    /\ event = NoEvent

Ports == 1 .. MaxPort
NoPortInfo == [def |-> FALSE, port |-> 0]
NoStart == [force |-> FALSE, res |-> "none", fresh |-> FALSE, wanted |-> 0,
            wantedBusy |-> FALSE, prev |-> 0]

PortInit ==
    /\ optsPort = -1
    /\ listenPort = 0
    /\ busy = {}
    /\ portState = new
    /\ portInfo = NoPortInfo
    /\ instPort = 0
    /\ bound = 0
    /\ lastStart = NoStart
    /\ uri = <<>>

\* no request chosen yet
NoReq == [systemBinary |-> <<>>, sys |-> "unset", downloadDir |-> "",
          envDownloadDir |-> "", modulesCacheDir |-> "", preferGlobal |-> FALSE,
          existing |-> {}]
NoOut == [kind |-> "none", found |-> FALSE, path |-> <<>>]

LocInit ==
    /\ locPc = "unset"
    /\ locReq = NoReq
    /\ dryCache = <<>>
    /\ locOut = NoOut

NoVersion == [text |-> "", coerced |-> <<>>, latest |-> FALSE]
NoUrlOpts == [platform |-> "", arch |-> "", version |-> NoVersion]
NoThis == [platform |-> "", arch |-> "", error |-> "none"]
NoName == [release |-> <<>>, name |-> "", error |-> "none"]

UrlInit ==
    /\ urlPc = "unset"
    /\ urlOpts = NoUrlOpts
    /\ urlThis = NoThis
    /\ urlOut = NoName

Init == LockInit /\ ServerInit /\ PortInit /\ LocInit /\ UrlInit

\* the supervisor, its instances and their child processes as one record,
\* so that the handlers below are functions from record to record; the
\* locals of a call that has settled (startFrom, stopOpts, stopTargets) are
\* gone when the next handler runs
Cur ==
    [state |-> state, notes |-> notes, instanceInfo |-> instanceInfo,
     instCount |-> instCount, procs |-> procs, minioProcess |-> minioProcess,
     killerProcess |-> killerProcess, isInstanceReady |-> isInstanceReady,
     staleTimers |-> staleTimers,
     startPc |-> startPc, startInst |-> startInst, startFresh |-> startFresh,
     startFrom |-> IF startPc = "none" THEN "none" ELSE startFrom,
     startErr |-> startErr, stops |-> stops, stopPc |-> stopPc,
     stopOpts |-> IF stopPc = "none" THEN NoOpts ELSE stopOpts,
     stopTargets |-> IF stopPc = "none" THEN {} ELSE stopTargets,
     startCalls |-> startCalls, stopCalls |-> stopCalls,
     ensurePc |-> ensurePc, ensureCalls |-> ensureCalls, ensured |-> "none",
     ensures |-> ensures,
     dataPathExists |-> dataPathExists, tmpDirs |-> tmpDirs,
     event |-> NoEvent]

Set(R) ==
    /\ state' = R.state
    /\ notes' = R.notes
    /\ instanceInfo' = R.instanceInfo
    /\ instCount' = R.instCount
    /\ procs' = R.procs
    /\ minioProcess' = R.minioProcess
    /\ killerProcess' = R.killerProcess
    /\ isInstanceReady' = R.isInstanceReady
    /\ staleTimers' = R.staleTimers
    /\ startPc' = R.startPc
    /\ startInst' = R.startInst
    /\ startFresh' = R.startFresh
    /\ startFrom' = R.startFrom
    /\ startErr' = R.startErr
    /\ stops' = R.stops
    /\ stopPc' = R.stopPc
    /\ stopOpts' = R.stopOpts
    /\ stopTargets' = R.stopTargets
    /\ startCalls' = R.startCalls
    /\ stopCalls' = R.stopCalls
    /\ ensurePc' = R.ensurePc
    /\ ensureCalls' = R.ensureCalls
    /\ ensured' = R.ensured
    /\ ensures' = R.ensures
    /\ dataPathExists' = R.dataPathExists
    /\ tmpDirs' = R.tmpDirs
    /\ event' = R.event
    /\ UNCHANGED dataPathSupplied
    /\ UNCHANGED <<lockVars, portVars, locVars, urlVars>>

\* the notifications observers received, the oldest dropped beyond NotesKept
Note(ns, s) ==
    LET all == Append(ns, s) IN IF Len(all) > NotesKept THEN Tail(all) ELSE all

\* ensureInstance() settles: it returns _instanceInfo ("info") or throws res
EnsureSettled(R, res) == [R EXCEPT !.ensurePc = "none", !.ensured = res]

\* what ensureInstance() returns when it finds the state running, at once or
\* after its start() resolved: _instanceInfo, or EnsureInstanceError
EnsureReturn(R) ==
    EnsureSettled(R, IF R.instanceInfo.def THEN "info" ELSE "EnsureInstanceError")

\* the once-listener ensureInstance() registered in state starting: rejects
\* on a state other than running, resolves with _instanceInfo on running;
\* its assertion throws when there is no _instanceInfo and the promise
\* stays pending
EnsureListener(R, st) ==
    IF R.ensurePc # "listening" THEN R
    ELSE IF st # running THEN EnsureSettled(R, "Error")
    ELSE IF R.instanceInfo.def THEN EnsureSettled(R, "info")
    ELSE [R EXCEPT !.ensurePc = "pending"]

\* the ensureInstance() of a concurrent caller settles: it returns
\* _instanceInfo ("info", of instance inst) or throws res; how tells which
\* of its exits it took
Answer(R, res, how) ==
    [pc |-> "none", res |-> res, how |-> how,
     inst |-> IF res = "info" THEN R.instanceInfo.inst ELSE 0]

\* the two places where ensureInstance() hands out _instanceInfo or throws
\* EnsureInstanceError for want of one
InfoOrError(R, how) ==
    Answer(R, IF R.instanceInfo.def THEN "info" ELSE "EnsureInstanceError", how)

\* an emit that calls only the first of the once-listeners
NotifiedFirstOnly(R, st) ==
    LET L == {e \in EnsureIds : R.ensures[e].pc = "listening"} IN
    IF L = {} THEN R
    ELSE LET e == CHOOSE x \in L : \A y \in L : x <= y IN
         [R EXCEPT !.ensures[e] = IF st = running /\ R.instanceInfo.def
                                  THEN Answer(R, "info", "listened")
                                  ELSE Answer(R, "Error", "listened")]

\* emit(stateChange, st) for the once-listeners of the concurrent callers:
\* every one of them is called and removed; it rejects on a state other
\* than running, resolves with _instanceInfo on running, and leaves its
\* promise pending when its assertion on _instanceInfo throws
Notified(R, st) ==
    [R EXCEPT !.ensures =
        [e \in EnsureIds |->
            IF R.ensures[e].pc # "listening" THEN R.ensures[e]
            ELSE IF st # running THEN Answer(R, "Error", "listened")
            ELSE IF R.instanceInfo.def THEN Answer(R, "info", "listened")
            ELSE [R.ensures[e] EXCEPT !.pc = "pending"]]]

\* MinioServer.stateChange(newState): set _state, emit stateChange
stateChange(R, newState) ==
    Notified(EnsureListener([R EXCEPT !.state = newState, !.notes = Note(@, newState)],
                            newState),
             newState)

\* a public method settles: it returns res or throws it
Settle(R, op, res) == [R EXCEPT !.event.op = op, !.event.res = res]

\* utils.isAlive(pid) on a child process
ProcAlive(ps, k) == ps[k].st = "alive"

\* a killProcess that signals and waits whether the pid is alive or not
KillProcessWaitsAlways(R, k) == TRUE

\* killProcess(childprocess): returns at once when the pid is not alive,
\* else sends SIGINT and waits for the exit event
KillProcessWaits(R, k) == ProcAlive(R.procs, k)

\* MinioInstance.stop(), second half: killProcess(killerProcess), reference reset
StopKiller(R, s, i) ==
    IF R.killerProcess[i] = 0 THEN [R EXCEPT !.stops[s] = IdleStop]
    ELSE IF KillProcessWaits(R, R.killerProcess[i])
         THEN [R EXCEPT !.stops[s] = [phase |-> "killerProcess", inst |-> i,
                        target |-> R.killerProcess[i], sub |-> "SIGINT"]]
         ELSE [R EXCEPT !.killerProcess[i] = 0, !.stops[s] = IdleStop]

\* MinioInstance.stop(), first half: killProcess(minioProcess), reference reset
StopMinio(R, s, i) ==
    IF R.minioProcess[i] = 0 THEN StopKiller(R, s, i)
    ELSE IF KillProcessWaits(R, R.minioProcess[i])
         THEN [R EXCEPT !.stops[s] = [phase |-> "minioProcess", inst |-> i,
                        target |-> R.minioProcess[i], sub |-> "SIGINT"]]
         ELSE StopKiller([R EXCEPT !.minioProcess[i] = 0], s, i)

\* MinioInstance.stop() of instance i, run by slot s up to its first wait
InstanceStop(R, s, i) ==
    IF R.minioProcess[i] = 0 /\ R.killerProcess[i] = 0 THEN R ELSE StopMinio(R, s, i)

\* MinioInstance.stop() after the awaited killProcess resolved
StopResumed(R, s) ==
    LET i == R.stops[s].inst IN
    IF R.stops[s].phase = "minioProcess"
    THEN StopKiller([R EXCEPT !.minioProcess[i] = 0], s, i)
    ELSE [R EXCEPT !.killerProcess[i] = 0, !.stops[s] = IdleStop]

Finished(R, s) == R.stops[s].phase = "idle"

FreeListeners(R) == {s \in ListenerSlots : R.stops[s].phase = "idle"}

\* the instanceError listener of the MinioInstance constructor:
\* isInstanceReady = false, await this.stop()
ErrorListener(R, i) ==
    InstanceStop([R EXCEPT !.isInstanceReady[i] = FALSE],
                 CHOOSE s \in FreeListeners(R) : TRUE, i)

\* the start() a concurrent ensureInstance() awaits settles: the caller
\* returns _instanceInfo or throws EnsureInstanceError after a resolved
\* start(), and throws what a rejected start() threw
AwaitedStartSettled(R, res) ==
    [R EXCEPT !.ensures =
        [e \in EnsureIds |->
            IF R.ensures[e].pc # "start" THEN R.ensures[e]
            ELSE IF res = "resolved" THEN InfoOrError(R, "started")
            ELSE Answer(R, res, "started")]]

\* MinioServer.start() settles: the start in flight is over
StartSettled(R, res) ==
    LET R2 == Settle([R EXCEPT !.startPc = "none", !.startInst = 0,
                               !.startFresh = FALSE, !.startErr = "none"],
                     "start", res)
        R3 == IF R.ensurePc # "start" THEN R2
              ELSE IF res = "resolved" THEN EnsureReturn(R2)
              ELSE EnsureSettled(R2, res)
    IN AwaitedStartSettled(R3, res)

\* the catch handler of MinioServer.start() after this.stop() returned:
\* stateChange(stopped), throw err
CatchDone(R, err) == StartSettled(stateChange(R, stopped), err)

\* the catch handler of MinioServer.start(): this.stop({doCleanup: false}),
\* which returns false without an _instanceInfo and otherwise stops the
\* instance and does stateChange(stopped) itself
StartCatch(R, err) ==
    IF ~R.instanceInfo.def THEN CatchDone(R, err)
    ELSE LET R2 == InstanceStop(R, CatchSlot, R.instanceInfo.inst) IN
         IF Finished(R2, CatchSlot)
         THEN CatchDone(stateChange(R2, stopped), err)
         ELSE [R2 EXCEPT !.startPc = "catch", !.startErr = err]

\* the launch promise of MinioInstance.start() is pending on instance i
Pending(R, i) == R.startPc = "launch" /\ R.startInst = i

\* the once-listeners of a pending launch promise reject it
LaunchRejected(R, i, err) == IF Pending(R, i) THEN StartCatch(R, err) ELSE R

\* an instanceError event on instance i: the constructor's listener runs
\* stop(), then the once-listener of the launch promise rejects
InstanceError(R, i, err) == LaunchRejected(ErrorListener(R, i), i, err)

\* MinioInstance.start() is entered for instance i (awaits getPath)
InstanceStart(R, i) ==
    [R EXCEPT !.startPc = "getPath", !.startInst = i, !.isInstanceReady[i] = FALSE]

\* _startUpInstance up to its first await: reuse the instance of
\* _instanceInfo (with forceSamePort its start() is called at once), or
\* await getStartOptions for a new one
StartUpInstance(R, force) ==
    IF R.instanceInfo.def
    THEN IF force THEN InstanceStart(R, R.instanceInfo.inst)
         ELSE [R EXCEPT !.startPc = "prepare", !.startFresh = FALSE]
    ELSE [R EXCEPT !.startPc = "prepare", !.startFresh = TRUE]

Waiting(s) == stops[s].phase # "idle"

\* a killProcess whose exit event has arrived and whose await has not resumed
Resumable(s) == Waiting(s) /\ ~ProcAlive(procs, stops[s].target)

\* the continuations of a delivered exit event run before any other event
Settled == \A s \in Slots : ~Resumable(s)

\* a start() whose switch has no refusing case: every state is accepted
StartAlwaysAccepted(st) == FALSE

\* the switch of MinioServer.start(): StateError in state starting
StartRefused(st) == st = starting

\* MinioServer.start(forceSamePort) up to its first await
Start(R, force) ==
    IF StartRefused(R.state) THEN Settle(R, "start", "StateError")
    ELSE IF R.instanceInfo.def /\ R.minioProcess[R.instanceInfo.inst] # 0
    THEN Settle(R, "start", "AssertionError")
    ELSE StartUpInstance(stateChange([R EXCEPT !.startFrom = R.state], starting),
                         force)

\* the embedding program calls start(forceSamePort)
CallStart(force) ==
    /\ Settled
    /\ startCalls < MaxStarts
    /\ startPc = "none" \/ state = starting
    /\ Set(Start([Cur EXCEPT !.startCalls = @ + 1, !.event.call = "start"], force))

\* the embedding program calls ensureInstance(): in state running it returns
\* at once, in state starting it registers its once-listener, in state new
\* or stopped it awaits this.start()
CallEnsure ==
    /\ Settled
    /\ ensureCalls < MaxEnsures
    /\ ensurePc = "none"
    /\ state \in {new, stopped} => startPc = "none" /\ startCalls < MaxStarts
    /\ LET R == [Cur EXCEPT !.ensureCalls = @ + 1, !.event.call = "ensureInstance"] IN
       Set(IF state = running THEN EnsureReturn(R)
           ELSE IF state = starting THEN [R EXCEPT !.ensurePc = "listening"]
           ELSE LET R2 == Start([R EXCEPT !.startCalls = @ + 1, !.ensurePc = "start"],
                                FALSE)
                IN IF R2.startPc = "none" THEN EnsureSettled(R2, R2.event.res) ELSE R2)

\* getStartOptions without an _instanceInfo: createTmpDir("minio-tst-") when
\* no dataPath is given, else readdir(dataPath), which throws when the
\* directory is gone; then a new MinioInstance is constructed and started
GetStartOptions(R) ==
    LET i == R.instCount + 1 IN
    IF ~dataPathSupplied
    THEN InstanceStart([R EXCEPT !.instCount = i, !.tmpDirs = @ \cup {i}], i)
    ELSE IF R.dataPathExists
    THEN InstanceStart([R EXCEPT !.instCount = i], i)
    ELSE StartCatch(R, "ENOENT")

\* _startUpInstance after getNewPort / getStartOptions: start() of the
\* instance of _instanceInfo, or of a new MinioInstance
StartPrepare ==
    /\ Settled
    /\ startPc = "prepare"
    /\ Set(IF startFresh
           THEN GetStartOptions(Cur)
           ELSE IF instanceInfo.def
           THEN InstanceStart(Cur, instanceInfo.inst)
           ELSE StartCatch(Cur, "TypeError"))

\* a freshly spawned child process of instance i
NewProc(kind, i) == [kind |-> kind, inst |-> i, st |-> "alive"]

\* what MinioInstance.start() meets after its await of getPath: getPath or
\* checkBinaryPermissions throws; spawn() throws (as with "spawn Unknown
\* system error -86"); spawn() returns a child without a pid and
\* _launchMinio throws StartBinaryFailedError; or both children are spawned
LaunchOutcomes == {"ProvisionError", "SpawnError", "StartBinaryFailedError", "spawned"}

\* _launchMinio threw after the launch promise and its timer were set up
LaunchThrows == {"SpawnError", "StartBinaryFailedError"}

\* MinioInstance.start() after getPath: getPath or checkBinaryPermissions
\* threw; or the launch promise and its timer are set up and _launchMinio
\* throws (the timer stays armed); or both children are spawned
StartLaunch(outcome) ==
    /\ Settled
    /\ startPc = "getPath"
    /\ Set(IF outcome = "spawned"
           THEN [Cur EXCEPT
                    !.procs = @ \o <<NewProc("minio", startInst),
                                     NewProc("killer", startInst)>>,
                    !.minioProcess[startInst] = Len(procs) + 1,
                    !.killerProcess[startInst] = Len(procs) + 2,
                    !.startPc = "launch"]
           ELSE IF outcome \in LaunchThrows
           THEN StartCatch([Cur EXCEPT !.staleTimers[startInst] = @ + 1], outcome)
           ELSE StartCatch(Cur, outcome))

\* the launch promise resolves: _startUpInstance stores _instanceInfo for a
\* new instance, start() does stateChange(running)
LaunchResolved(R) ==
    LET R2 == IF R.startFresh
              THEN [R EXCEPT !.instanceInfo = [def |-> TRUE, inst |-> R.startInst,
                                               tmpDir |-> ~dataPathSupplied]]
              ELSE R
    IN StartSettled(stateChange(R2, running), "resolved")

\* a readiness line that resolves the start() whatever became of its launch
\* promise
InstanceReadyResettles(R, i) ==
    LET R2 == [R EXCEPT !.isInstanceReady[i] = TRUE] IN
    IF R2.startPc \in {"launch", "catch"} /\ R2.startInst = i
    THEN LaunchResolved(R2) ELSE R2

\* an instanceReady event on instance i: the constructor's listener sets
\* isInstanceReady, then the once-listener of a pending launch promise
\* resolves it; a promise that has settled stays as it is
InstanceReady(R, i) ==
    LET R2 == [R EXCEPT !.isInstanceReady[i] = TRUE] IN
    IF Pending(R2, i) THEN LaunchResolved(R2) ELSE R2

ServerProcs == {k \in 1 .. Len(procs) : procs[k].kind = "minio"}

\* stderrHandler / stdoutHandler: a readiness line emits instanceReady
ProcReady(k) ==
    /\ Settled
    /\ k \in ServerProcs /\ procs[k].st # "gone"
    /\ Set(InstanceReady(Cur, procs[k].inst))

\* checkErrorInLine: a fatal line emits instanceError(StdoutInstanceError)
ProcFatalLine(k) ==
    /\ Settled
    /\ k \in ServerProcs /\ procs[k].st # "gone"
    /\ FreeListeners(Cur) # {}
    /\ Set(InstanceError(Cur, procs[k].inst, "StdoutInstanceError"))

\* a closeHandler that emits instanceClosed before the instanceError
closeHandlerClosedFirst(R, i, nonZero) ==
    LET R2 == LaunchRejected(R, i, "ExitedBeforeReadyError") IN
    IF nonZero THEN InstanceError(R2, i, "UnexpectedCloseError") ELSE R2

\* MinioInstance.closeHandler(code, signal) on instance i, nonZero telling
\* whether the code counts as unexpected (not 0, and not 12 on win32):
\* if so emit instanceError(UnexpectedCloseError); then emit instanceClosed
closeHandler(R, i, nonZero) ==
    LaunchRejected(IF nonZero THEN InstanceError(R, i, "UnexpectedCloseError") ELSE R,
                   i, "ExitedBeforeReadyError")

\* a child process exits (its exit event is delivered): on a signal of
\* killProcess or on its own. The close event of the server, with the exit
\* code, follows separately; the reaper has no close handler
ProcExit(k) ==
    /\ Settled
    /\ k \in 1 .. Len(procs) /\ procs[k].st = "alive"
    /\ Set([Cur EXCEPT !.procs[k].st = IF k \in ServerProcs THEN "exited" ELSE "gone"])

\* closeHandler(code, signal): instanceError(UnexpectedCloseError) for a
\* non-zero code, then instanceClosed, on which a pending launch rejects
ProcClose(k, nonZero) ==
    /\ Settled
    /\ k \in ServerProcs /\ procs[k].st = "exited"
    /\ nonZero => FreeListeners(Cur) # {}
    /\ Set(closeHandler([Cur EXCEPT !.procs[k].st = "gone"], procs[k].inst, nonZero))

\* the launch timer of the start() in flight fires
LaunchTimeout ==
    /\ Settled
    /\ startPc = "launch"
    /\ FreeListeners(Cur) # {}
    /\ Set(InstanceError(Cur, startInst, "LaunchTimeoutError"))

\* a launch timer that an earlier, thrown start() left armed fires
StaleTimeout(i) ==
    /\ Settled
    /\ staleTimers[i] > 0
    /\ FreeListeners(Cur) # {}
    /\ Set(InstanceError([Cur EXCEPT !.staleTimers[i] = @ - 1], i, "LaunchTimeoutError"))

\* MinioServer.stop() settles
StopSettled(R, res) ==
    Settle([R EXCEPT !.stopPc = "none"], "stop", res)

\* the cleanup() in flight was called by the embedding program, not by stop()
Direct(R) == R.stopPc \in {"cleanupCall", "cleanupRemove"}

\* MinioServer.cleanup settles: when stop() awaited it, stop() returns true
\* or throws its error; when the embedding program called it, it returns or
\* throws
CleanupSettled(R, res) ==
    IF Direct(R)
    THEN Settle([R EXCEPT !.stopPc = "none"], "cleanup",
                IF res = "true" THEN "returned" ELSE res)
    ELSE StopSettled(R, res)

\* MinioServer.cleanup after its awaits: stateChange(new), _instanceInfo reset
CleanupDone(R) ==
    CleanupSettled([stateChange(R, new) EXCEPT !.instanceInfo = NoInfo], "true")

\* a cleanup that does not look at the reference to the server process
CleanupUnasserted(R, opts) ==
    IF R.state # stopped THEN CleanupSettled(R, "StateError")
    ELSE IF ~opts.doCleanup \/ ~R.instanceInfo.def THEN CleanupSettled(R, "true")
    ELSE IF R.instanceInfo.tmpDir \/ opts.force
    THEN [R EXCEPT !.stopPc = IF Direct(R) THEN "cleanupRemove" ELSE "cleanup"]
    ELSE CleanupDone(R)

\* MinioServer.cleanup(opts) up to its first await: assertionIsMMSState,
\* the two early returns, the assertion on instance.minioProcess
Cleanup(R, opts) ==
    IF R.state # stopped THEN CleanupSettled(R, "StateError")
    ELSE IF ~opts.doCleanup \/ ~R.instanceInfo.def THEN CleanupSettled(R, "true")
    ELSE IF R.minioProcess[R.instanceInfo.inst] # 0
    THEN CleanupSettled(R, "CleanupError")
    ELSE IF R.instanceInfo.tmpDir \/ opts.force
    THEN [R EXCEPT !.stopPc = IF Direct(R) THEN "cleanupRemove" ELSE "cleanup"]
    ELSE CleanupDone(R)

\* a stop() that runs cleanup whatever doCleanup says
StopDoneAlwaysCleans(R, opts) ==
    Cleanup(stateChange(R, stopped), [opts EXCEPT !.doCleanup = TRUE])

\* MinioServer.stop() after instance.stop() returned: stateChange(stopped),
\* then cleanup(opts) when doCleanup is set
StopDone(R, opts) ==
    IF opts.doCleanup THEN Cleanup(stateChange(R, stopped), opts)
    ELSE StopSettled(stateChange(R, stopped), "true")

\* what runs when the MinioInstance.stop() of slot s has returned
StopReturned(R, s) ==
    IF s = UserSlot THEN StopDone(R, R.stopOpts)
    ELSE IF s = CatchSlot THEN CatchDone(stateChange(R, stopped), R.startErr)
    ELSE R

\* what runs when the killProcess awaited by slot s has rejected
StopThrown(R, s) ==
    IF s = UserSlot THEN StopSettled(R, "KillError")
    ELSE IF s = CatchSlot THEN StartSettled(R, "KillError")
    ELSE R

\* the exit listener of killProcess resolves; MinioInstance.stop() goes on
KillResume(s) ==
    /\ Resumable(s)
    /\ LET R == StopResumed(Cur, s) IN
       Set(IF Finished(R, s) THEN StopReturned(R, s) ELSE R)

\* killProcess: the first 10 s timer fires, SIGKILL is sent
KillTimeout(s) ==
    /\ Settled
    /\ Waiting(s) /\ stops[s].sub = "SIGINT"
    /\ Set([Cur EXCEPT !.stops[s].sub = "SIGKILL"])

\* killProcess: the second 10 s timer fires, the promise rejects
KillReject(s) ==
    /\ Settled
    /\ Waiting(s) /\ stops[s].sub = "SIGKILL"
    /\ Set(StopThrown([Cur EXCEPT !.stops[s] = IdleStop], s))

\* MinioServer.stop(cleanupOptions) up to its first wait
CallStop(doCleanup, force) ==
    /\ Settled
    /\ stopCalls < MaxStops
    /\ stopPc = "none"
    /\ ~doCleanup => ~force
    /\ LET opts == [doCleanup |-> doCleanup, force |-> force]
           R == [Cur EXCEPT !.stopCalls = @ + 1, !.event.call = "stop"]
       IN Set(IF ~instanceInfo.def THEN Settle(R, "stop", "false")
              ELSE LET i == instanceInfo.inst
                       R1 == [R EXCEPT !.stopOpts = opts,
                                       !.stopTargets = {minioProcess[i], killerProcess[i]} \ {0}]
                       R2 == InstanceStop(R1, UserSlot, i) IN
                   IF Finished(R2, UserSlot) THEN StopDone(R2, opts)
                   ELSE [R2 EXCEPT !.stopPc = "kill"])

\* MinioServer.cleanup: removeDir(tmpDir) when _instanceInfo has a tmpDir;
\* with force, removeDir(dataPath), which is the tmpDir when there is one
RemoveDirs(R, opts) ==
    IF R.instanceInfo.tmpDir THEN [R EXCEPT !.tmpDirs = @ \ {R.instanceInfo.inst}]
    ELSE IF opts.force THEN [R EXCEPT !.dataPathExists = FALSE]
    ELSE R

\* MinioServer.cleanup resumes after removeDir / statPath
CleanupFinish ==
    /\ Settled
    /\ stopPc \in {"cleanup", "cleanupRemove"}
    /\ Set(CleanupDone(RemoveDirs(Cur, stopOpts)))

\* the embedding program calls cleanup(options) with an options object
CallCleanup(doCleanup, force) ==
    /\ Settled
    /\ stopPc = "none"
    /\ ~doCleanup => ~force
    /\ LET opts == [doCleanup |-> doCleanup, force |-> force] IN
       Set(Cleanup([Cur EXCEPT !.stopPc = "cleanupCall", !.stopOpts = opts,
                               !.event.call = "cleanup"], opts))

\* ensureInstance() called by concurrent caller e: in state running it
\* returns at once, in state starting it registers its once-listener, in
\* state new or stopped it awaits this.start()
EnsureInstance(e) ==
    /\ Settled
    /\ ensures[e] = NoEnsure
    /\ state \in {new, stopped} => startPc = "none" /\ startCalls < MaxStarts
    /\ LET R == [Cur EXCEPT !.event.call = "ensureInstance"] IN
       Set(IF state = running
           THEN [R EXCEPT !.ensures[e] = InfoOrError(R, "returned")]
           ELSE IF state = starting
           THEN [R EXCEPT !.ensures[e].pc = "listening"]
           ELSE LET R2 == Start([R EXCEPT !.startCalls = @ + 1,
                                          !.ensures[e].pc = "start"], FALSE)
                IN IF R2.startPc = "none"
                   THEN [R2 EXCEPT !.ensures[e] = Answer(R2, R2.event.res, "started")]
                   ELSE R2)

\* the supervisor driven by a program that calls start(), stop() and
\* ensureInstance(); a server process writes its readiness line while the
\* launch of its instance is pending
ServerNext ==
    \/ \E force \in BOOLEAN : CallStart(force)
    \/ CallEnsure
    \/ StartPrepare
    \/ \E outcome \in LaunchOutcomes :
          StartLaunch(outcome)
    \/ \E k \in 1 .. Len(procs) : Pending(Cur, procs[k].inst) /\ ProcReady(k)
    \/ \E k \in 1 .. Len(procs) : ProcFatalLine(k)
    \/ \E k \in 1 .. Len(procs) : ProcExit(k)
    \/ \E k \in 1 .. Len(procs) : \E nonZero \in BOOLEAN : ProcClose(k, nonZero)
    \/ LaunchTimeout
    \/ \E i \in InstIds : StaleTimeout(i)
    \/ \E s \in Slots : KillResume(s)
    \/ \E s \in Slots : KillTimeout(s)
    \/ \E s \in Slots : KillReject(s)
    \/ \E doCleanup \in BOOLEAN : \E force \in BOOLEAN : CallStop(doCleanup, force)
    \/ CleanupFinish

LockSpec == Init /\ [][LockNext]_vars

FairLockSpec ==
    LockSpec /\ \A p \in Procs : \A c \in Callers(p) : WF_vars(CallerStep(p, c))

ServerSpec == Init /\ [][ServerNext]_vars

\* the supervisor driven by a program that calls start(), stop() and
\* cleanup(), and never ensureInstance(); a server process writes readiness
\* lines at any time
InstanceNext ==
    \/ \E force \in BOOLEAN : CallStart(force)
    \/ StartPrepare
    \/ \E outcome \in LaunchOutcomes :
          StartLaunch(outcome)
    \/ \E k \in 1 .. Len(procs) : ProcReady(k)
    \/ \E k \in 1 .. Len(procs) : ProcFatalLine(k)
    \/ \E k \in 1 .. Len(procs) : ProcExit(k)
    \/ \E k \in 1 .. Len(procs) : \E nonZero \in BOOLEAN : ProcClose(k, nonZero)
    \/ LaunchTimeout
    \/ \E i \in InstIds : StaleTimeout(i)
    \/ \E s \in Slots : KillResume(s)
    \/ \E s \in Slots : KillTimeout(s)
    \/ \E s \in Slots : KillReject(s)
    \/ \E doCleanup \in BOOLEAN : \E force \in BOOLEAN : CallStop(doCleanup, force)
    \/ CleanupFinish
    \/ \E doCleanup \in BOOLEAN : \E force \in BOOLEAN : CallCleanup(doCleanup, force)

InstanceSpec == Init /\ [][InstanceNext]_vars

(***************************************************************************)
(* MinioServer port selection, sequential use                              *)
(***************************************************************************)

\* new MinioServer(opts): opts.instance.port is a number or absent. What the
\* server binary listens on without a port argument is a property of the
\* binary and of opts.instance.args
Construct(port, listen) ==
    /\ optsPort = -1
    /\ optsPort' = port
    /\ listenPort' = listen
    /\ UNCHANGED <<busy, portState, portInfo, instPort, bound, lastStart, uri>>
    /\ UNCHANGED <<lockVars, serverVars, locVars, urlVars>>

\* another program starts or stops listening on port p
OtherProgram(p) ==
    /\ p # bound
    /\ busy' = IF p \in busy THEN busy \ {p} ELSE busy \cup {p}
    /\ busy' # Ports
    /\ uri' = <<>>
    /\ UNCHANGED <<optsPort, listenPort, portState, portInfo, instPort, bound,
                   lastStart>>
    /\ UNCHANGED <<lockVars, serverVars, locVars, urlVars>>

\* getPort({port}): the preferred port when it is free, else any free port
getPort(port, free) == IF port # 0 /\ port \notin busy THEN port ELSE free

\* MinioServer.getNewPort(port)
getNewPort(port, free) == getPort(port, free)

\* the port of getStartOptions(forceSamePort): opts.instance.port, replaced
\* by getNewPort unless forceSamePort is set and a port was given
getStartOptions(force, free) ==
    IF ~force \/ optsPort = 0 THEN getNewPort(optsPort, free) ELSE optsPort

\* a _startUpInstance that asks getNewPort whatever forceSamePort says
startUpPortAlwaysNew(force, free) ==
    IF portInfo.def THEN getNewPort(portInfo.port, free)
    ELSE getStartOptions(force, free)

\* the port _startUpInstance starts the instance with: for an existing
\* _instanceInfo its port, replaced by getNewPort unless forceSamePort
startUpPort(force, free) ==
    IF portInfo.def
    THEN IF force THEN portInfo.port ELSE getNewPort(portInfo.port, free)
    ELSE getStartOptions(force, free)

\* start(forceSamePort) up to the spawn of the server: the port is selected;
\* an existing _instanceInfo and its instance take the new port at once
SelectPort(force, free) ==
    /\ optsPort # -1
    /\ portState \in {new, stopped}
    /\ free \in Ports \ busy
    /\ LET port == startUpPort(force, free)
           wanted == IF portInfo.def THEN portInfo.port ELSE optsPort IN
       /\ instPort' = port
       /\ portInfo' = IF portInfo.def THEN [portInfo EXCEPT !.port = port] ELSE portInfo
       /\ lastStart' = [force |-> force, res |-> "none", fresh |-> ~portInfo.def,
                        wanted |-> wanted, wantedBusy |-> wanted \in busy,
                        prev |-> IF lastStart.res = "none" THEN lastStart.prev ELSE 0]
    /\ portState' = starting
    /\ uri' = <<>>
    /\ UNCHANGED <<optsPort, listenPort, busy, bound>>
    /\ UNCHANGED <<lockVars, serverVars, locVars, urlVars>>

\* MinioInstance.prepareCommandArgs(): "server", the dataPath and
\* instanceOpts.args; instanceOpts.port is asserted and not passed on
prepareCommandArgs(port) == <<"server", "dataPath">>

\* the port the server process listens on, given its arguments
ListenOn(args) ==
    IF \E j \in 1 .. Len(args) - 1 : args[j] = "--port"
    THEN args[1 + CHOOSE j \in 1 .. Len(args) - 1 : args[j] = "--port"]
    ELSE listenPort

\* the server process comes up: it binds its port and start() resolves in
\* state running, _instanceInfo set; or the port is taken, the process
\* prints "address already in use", checkErrorInLine emits instanceError
\* and start() throws StdoutInstanceError in state stopped
Launch ==
    /\ portState = starting
    /\ LET addr == ListenOn(prepareCommandArgs(instPort)) IN
       IF addr \notin busy
       THEN /\ bound' = addr
            /\ portState' = running
            /\ portInfo' = [def |-> TRUE, port |-> instPort]
            /\ lastStart' = [lastStart EXCEPT !.res = "resolved",
                                             !.wantedBusy = @ /\ lastStart.wanted \in busy]
       ELSE /\ bound' = 0
            /\ portState' = stopped
            /\ portInfo' = portInfo
            /\ lastStart' = [lastStart EXCEPT !.res = "StdoutInstanceError",
                                             !.wantedBusy = @ /\ lastStart.wanted \in busy]
    /\ uri' = <<>>
    /\ UNCHANGED <<optsPort, listenPort, busy, instPort>>
    /\ UNCHANGED <<lockVars, serverVars, locVars, urlVars>>

\* stop({doCleanup}): the server process is stopped; cleanup resets
\* _instanceInfo. The port the ended run reported is remembered
Stop(doCleanup) ==
    /\ portState \in {running, stopped}
    /\ portInfo.def
    /\ bound' = 0
    /\ portState' = IF doCleanup THEN new ELSE stopped
    /\ portInfo' = IF doCleanup THEN NoPortInfo ELSE portInfo
    /\ lastStart' = [NoStart EXCEPT !.prev = IF portState = running THEN portInfo.port
                                             ELSE 0]
    /\ uri' = <<>>
    /\ UNCHANGED <<optsPort, listenPort, busy, instPort>>
    /\ UNCHANGED <<lockVars, serverVars, locVars, urlVars>>

\* generateDbName(dbName): the name, or the empty string
generateDbName(dbName) == IF dbName = "undefined" THEN "" ELSE dbName

\* uriTemplate(host, port, dbName) without a query
uriTemplate(host, port, dbName) ==
    IF port # 0 THEN <<"mongodb://", host, ":", port, "/", dbName>>
    ELSE <<"mongodb://", host, "/", dbName>>

\* MinioServer.getUri(otherDb, otherIp): StateError unless running or
\* starting, an assertion without _instanceInfo, else the uri
getUri(otherDb, otherIp) ==
    IF portState \notin {running, starting} THEN <<"StateError">>
    ELSE IF ~portInfo.def THEN <<"InstanceInfoError">>
    ELSE uriTemplate(IF otherIp = "undefined" THEN "127.0.0.1" ELSE otherIp,
                     portInfo.port, generateDbName(otherDb))

\* the embedding program calls getUri
CallGetUri(otherDb, otherIp) ==
    /\ optsPort # -1
    /\ uri' = getUri(otherDb, otherIp)
    /\ UNCHANGED <<optsPort, listenPort, busy, portState, portInfo, instPort, bound,
                   lastStart>>
    /\ UNCHANGED <<lockVars, serverVars, locVars, urlVars>>

PortNext ==
    \/ \E port \in {0} \cup Ports : \E listen \in Ports : Construct(port, listen)
    \/ \E p \in Ports : OtherProgram(p)
    \/ \E force \in BOOLEAN : \E free \in Ports : SelectPort(force, free)
    \/ Launch
    \/ \E doCleanup \in BOOLEAN : Stop(doCleanup)
    \/ \E otherDb \in {"undefined", "db"} : \E otherIp \in {"undefined", "10.0.0.1"} :
          CallGetUri(otherDb, otherIp)

PortSpec == Init /\ [][PortNext]_vars

(***************************************************************************)
(* DryMinioBinary: generatePaths, generateDownloadPath, locateBinary       *)
(***************************************************************************)
\* getBinaryName for the requested version; a path is <<directory, file name>>
\* and <<>> is the empty string
binaryName == "mongod-x64-ubuntu-version"
SystemBinaryPath == <<"sysDir", "minio">>
combineBinaryName(basePath, name) == <<basePath, name>>
dirname(path) == path[1]

\* the requests, configurations and disks a call may meet. sys: the system
\* binary is not configured, configured and missing, present but refused by
\* checkBinaryPermissions (chmod or access throws), or present and usable
Requests ==
    {r \in [systemBinary : {<<>>, SystemBinaryPath},
            sys : {"unset", "missing", "unusable", "usable"},
            downloadDir : {"", "optDir"},
            envDownloadDir : {"", "envDir"},
            modulesCacheDir : {"", "modulesCache"},
            preferGlobal : BOOLEAN,
            existing : SUBSET {"optDir", "envDir", "homeCache", "modulesCache", "cwd"}] :
        /\ (r.systemBinary = <<>>) <=> (r.sys = "unset")
        /\ "optDir" \in r.existing => r.downloadDir = "optDir"
        /\ "envDir" \in r.existing => r.envDownloadDir = "envDir"
        /\ "modulesCache" \in r.existing => r.modulesCacheDir = "modulesCache"}

\* utils.pathExists: stat of the path; the empty path does not exist
pathExists(path, req) ==
    IF path = <<>> THEN FALSE
    ELSE IF path = SystemBinaryPath THEN req.sys \in {"unusable", "usable"}
    ELSE path[2] = binaryName /\ path[1] \in req.existing

\* getSystemPath: the path if checkBinaryPermissions succeeds, else undefined
getSystemPath(req) == IF req.sys = "usable" THEN req.systemBinary ELSE <<>>

\* generatePaths: the four candidate paths, "" for the ones not available
generatePaths(req) ==
    LET resolveConfigValue ==
            IF req.downloadDir # "" THEN req.downloadDir ELSE req.envDownloadDir
    IN [resolveConfig |-> IF resolveConfigValue # ""
                          THEN combineBinaryName(resolveConfigValue, binaryName)
                          ELSE <<>>,
        legacyHomeCache |-> combineBinaryName("homeCache", binaryName),
        modulesCache |-> IF req.modulesCacheDir # ""
                         THEN combineBinaryName(req.modulesCacheDir, binaryName)
                         ELSE <<>>,
        relative |-> combineBinaryName("cwd", binaryName)]

\* a probe that looks into the modules cache before the home cache
ProbeOrderModulesFirst(paths) ==
    <<paths.resolveConfig, paths.modulesCache, paths.legacyHomeCache, paths.relative>>

\* the order in which generateDownloadPath probes the candidates
ProbeOrder(paths) ==
    <<paths.resolveConfig, paths.legacyHomeCache, paths.modulesCache, paths.relative>>

\* generateDownloadPath: [exists, path]
generateDownloadPath(req) ==
    LET paths == generatePaths(req)
        order == ProbeOrder(paths)
        hits == {i \in 1 .. Len(order) : pathExists(order[i], req)}
    IN IF req.systemBinary # <<>> /\ pathExists(req.systemBinary, req)
          /\ getSystemPath(req) # <<>>
       THEN <<TRUE, getSystemPath(req)>>
       ELSE IF hits # {}
       THEN <<TRUE, order[CHOOSE i \in hits : \A j \in hits : i <= j]>>
       ELSE IF paths.resolveConfig # <<>> THEN <<FALSE, paths.resolveConfig>>
       ELSE IF req.preferGlobal /\ paths.legacyHomeCache # <<>>
       THEN <<FALSE, paths.legacyHomeCache>>
       ELSE IF paths.modulesCache # <<>> THEN <<FALSE, paths.modulesCache>>
       ELSE <<FALSE, paths.relative>>

\* generateOptions: DOWNLOAD_DIR before opts.downloadDir, then the directory
\* of the path generateDownloadPath answers for these options
generateOptions(req) ==
    LET final == [req EXCEPT !.downloadDir = IF req.envDownloadDir # ""
                                             THEN req.envDownloadDir
                                             ELSE req.downloadDir]
    IN [final EXCEPT !.downloadDir = dirname(generateDownloadPath(final)[2])]

\* locateBinary: what it returns or throws, and the cache entry it leaves
LocateBinary(req, cache) ==
    LET useOpts == generateOptions(req)
        returnValue == generateDownloadPath(useOpts)
    IN IF useOpts.systemBinary # <<>>
       THEN IF getSystemPath(useOpts) = <<>>
            THEN [kind |-> "NoSystemBinaryFoundError", path |-> <<>>, cache |-> cache]
            ELSE [kind |-> "path", path |-> getSystemPath(useOpts), cache |-> cache]
       ELSE IF cache # <<>>
       THEN [kind |-> "path", path |-> cache, cache |-> cache]
       ELSE IF ~returnValue[1]
       THEN [kind |-> "undefined", path |-> <<>>, cache |-> cache]
       ELSE [kind |-> "path", path |-> returnValue[2], cache |-> returnValue[2]]

\* a request, a configuration and a disk are chosen; the version may have a
\* cache entry from an earlier locateBinary or download
Configure(req, cached) ==
    /\ locPc = "unset"
    /\ locPc' = "set"
    /\ locReq' = req
    /\ dryCache' = IF cached THEN combineBinaryName("homeCache", binaryName) ELSE <<>>
    /\ UNCHANGED locOut
    /\ UNCHANGED <<lockVars, serverVars, portVars, urlVars>>

CallGenerateDownloadPath ==
    /\ locPc = "set"
    /\ locPc' = "generated"
    /\ LET r == generateDownloadPath(locReq)
       IN locOut' = [kind |-> "pair", found |-> r[1], path |-> r[2]]
    /\ UNCHANGED <<locReq, dryCache>>
    /\ UNCHANGED <<lockVars, serverVars, portVars, urlVars>>

CallLocateBinary ==
    /\ locPc = "set"
    /\ locPc' = "located"
    /\ LET r == LocateBinary(locReq, dryCache)
       IN /\ locOut' = [kind |-> r.kind, found |-> r.kind = "path", path |-> r.path]
          /\ dryCache' = r.cache
    /\ UNCHANGED locReq
    /\ UNCHANGED <<lockVars, serverVars, portVars, urlVars>>

LocateNext ==
    \/ \E req \in Requests : \E cached \in BOOLEAN : Configure(req, cached)
    \/ CallGenerateDownloadPath
    \/ CallLocateBinary

LocateSpec == Init /\ [][LocateNext]_vars

(***************************************************************************)
(* MinioBinaryDownloadUrl: translatePlatform, translateArch, RHEL string   *)
(***************************************************************************)
\* requested versions: the text, what semver.coerce makes of it (<<>> for
\* null) and what testVersionIsLatest answers
Versions ==
    {[text |-> "4.2.0", coerced |-> <<4, 2, 0>>, latest |-> FALSE],
     [text |-> "4.3.0", coerced |-> <<4, 3, 0>>, latest |-> FALSE],
     [text |-> "4.4.1", coerced |-> <<4, 4, 1>>, latest |-> FALSE],
     [text |-> "4.4.2", coerced |-> <<4, 4, 2>>, latest |-> FALSE],
     [text |-> "6.0.0", coerced |-> <<6, 0, 0>>, latest |-> FALSE],
     [text |-> "v4.0-latest", coerced |-> <<4, 0, 0>>, latest |-> TRUE],
     [text |-> "latest", coerced |-> <<>>, latest |-> FALSE]}

\* os.release values as semver.coerce reads them (<<>> for null)
Releases ==
    {<<>>, <<4, 0, 0>>, <<5, 11, 0>>, <<6, 10, 0>>, <<7, 9, 0>>, <<8, 0, 0>>,
     <<8, 1, 0>>, <<8, 2, 0>>, <<8, 3, 0>>, <<9, 0, 0>>}

PlatformInputs == {"darwin", "win32", "linux", "elementary OS", "sunos", "freebsd"}
ArchInputs == {"ia32", "x86_64", "amd64", "x64", "arm64", "aarch64", "mips"}

\* semver.lt and semver.gte on coerced versions
semverLt(a, b) ==
    \/ a[1] < b[1]
    \/ a[1] = b[1] /\ a[2] < b[2]
    \/ a[1] = b[1] /\ a[2] = b[2] /\ a[3] < b[3]
semverGte(a, b) == ~semverLt(a, b)

\* translatePlatform(platform) for this.version
translatePlatform(platform, version) ==
    IF platform = "darwin" THEN "darwin"
    ELSE IF platform = "win32"
    THEN IF version.coerced = <<>> THEN "windows"
         ELSE IF semverGte(version.coerced, <<4, 3, 0>>) THEN "windows" ELSE "win32"
    ELSE IF platform \in {"linux", "elementary OS"} THEN "linux"
    ELSE IF platform = "sunos" THEN "sunos5"
    ELSE "UnknownPlatformError"

\* translateArch(arch, minioPlatform)
translateArch(arch, minioPlatform) ==
    IF arch = "ia32"
    THEN IF minioPlatform = "linux" THEN "i686"
         ELSE IF minioPlatform = "win32" THEN "i386"
         ELSE "UnknownArchitectureError"
    ELSE IF arch \in {"x86_64", "amd64", "x64"} THEN "amd64"
    ELSE IF arch = "arm64" THEN "arm64"
    ELSE IF arch = "aarch64" THEN "aarch64"
    ELSE "UnknownArchitectureError"

\* getRhelVersionString(os) for this.arch and this.version
getRhelVersionString(arch, version, release) ==
    IF version.coerced = <<>> THEN [name |-> "", error |-> "UnknownVersionError"]
    ELSE IF release = <<>> THEN [name |-> "rhel70", error |-> "none"]
    ELSE IF arch = "aarch64"
    THEN IF semverLt(release, <<8, 2, 0>>)
         THEN [name |-> "", error |-> "KnownVersionIncompatibilityError"]
         ELSE IF semverLt(version.coerced, <<4, 4, 2>>) /\ ~version.latest
         THEN [name |-> "", error |-> "KnownVersionIncompatibilityError"]
         ELSE [name |-> "rhel82", error |-> "none"]
    ELSE IF semverGte(release, <<8, 0, 0>>) THEN [name |-> "rhel80", error |-> "none"]
    ELSE IF release[1] = 7 THEN [name |-> "rhel70", error |-> "none"]
    ELSE IF release[1] = 6 THEN [name |-> "rhel62", error |-> "none"]
    ELSE IF release[1] = 5 THEN [name |-> "rhel55", error |-> "none"]
    ELSE [name |-> "rhel70", error |-> "none"]

\* new MinioBinaryDownloadUrl(opts)
NewDownloadUrl(opts) ==
    /\ urlPc = "unset"
    /\ urlOpts' = opts
    /\ LET platform == translatePlatform(opts.platform, opts.version)
           arch == translateArch(opts.arch, platform)
       IN IF platform = "UnknownPlatformError"
          THEN /\ urlThis' = [platform |-> "", arch |-> "", error |-> platform]
               /\ urlPc' = "threw"
          ELSE IF arch = "UnknownArchitectureError"
          THEN /\ urlThis' = [platform |-> platform, arch |-> "", error |-> arch]
               /\ urlPc' = "threw"
          ELSE /\ urlThis' = [platform |-> platform, arch |-> arch, error |-> "none"]
               /\ urlPc' = "constructed"
    /\ UNCHANGED urlOut
    /\ UNCHANGED <<lockVars, serverVars, portVars, locVars>>

\* getArchiveNameLinux on a RHEL-like os: getLinuxOSVersionString dispatches
\* to getRhelVersionString (not asked for i686)
CallGetRhelVersionString(release) ==
    /\ urlPc = "constructed"
    /\ urlThis.platform = "linux" /\ urlThis.arch # "i686"
    /\ urlPc' = "named"
    /\ LET r == getRhelVersionString(urlThis.arch, urlOpts.version, release)
       IN urlOut' = [release |-> release, name |-> r.name, error |-> r.error]
    /\ UNCHANGED <<urlOpts, urlThis>>
    /\ UNCHANGED <<lockVars, serverVars, portVars, locVars>>

UrlNext ==
    \/ \E platform \in PlatformInputs : \E arch \in ArchInputs : \E version \in Versions :
          NewDownloadUrl([platform |-> platform, arch |-> arch, version |-> version])
    \/ \E release \in Releases : CallGetRhelVersionString(release)

UrlSpec == Init /\ [][UrlNext]_vars

(***************************************************************************)
(* Claims on LockFile and MinioBinary.download                             *)
(***************************************************************************)
HttpOf(p) == {c \in Callers(p) : <<p, c>> \in httpBy}
Returned(p, c) ==
    \/ pc[p][c] = "return"
    \/ pc[p][c] = "done" /\ result[p][c] # "UnableToUnlockLockfileError"

\* C1: two processes contending for the same lockfile path never both hold
\* a handle that neither has unlocked.
LockMutualExclusion ==
    \A p \in Procs : \A q \in Procs \ {p} :
        \A c \in Callers(p) : \A d \in Callers(q) :
            (alive[p] /\ alive[q]) => ~(Holds(p, c) /\ Holds(q, d))

AllProvisionsReturn ==
    /\ \A p \in Procs : \A c \in Callers(p) :
          (pc[p][c] = "lock") ~> (pc[p][c] = "done" \/ ~alive[p])
    /\ [](\A p \in Procs : \A c \in Callers(p) : \A d \in Callers(p) :
            (pc[p][c] = "done" /\ pc[p][d] = "done"
               /\ failed[p][c] = "none" /\ failed[p][d] = "none")
              => result[p][c] = result[p][d])

\* C4: once a caller's unlock() has completed (download returned or threw
\* the download error), the marker file does not hold that caller's record.
OwnerRecordRemoved ==
    \A p \in Procs : \A c \in Callers(p) :
        Returned(p, c) => lockContent # [pid |-> p, uuid |-> NewUuid(p, c)]

(***************************************************************************)
(* Claims on MinioServer                                                   *)
(***************************************************************************)
AliveProcs == {k \in 1 .. Len(procs) : ProcAlive(procs, k)}
StopReturnedNow == event.op = "stop" /\ event.res \in {"true", "false"}
StartResolvedNow == event.op = "start" /\ event.res = "resolved"
LastTwo(ns) == IF Len(ns) < 2 THEN ns ELSE SubSeq(ns, Len(ns) - 1, Len(ns))

\* C5: in the state in which MinioServer.stop() returns, no child process
\* this supervisor spawned (server or reaper) is alive
StopLeavesNoChild ==
    StopReturnedNow => AliveProcs = {}

\* C6: a start() called while the state is starting throws StateError and
\* changes nothing: no spawn, no notification, the start in flight and any
\* stop in flight stay where they are
StartSingleFlight ==
    [][(state = starting /\ event'.call = "start") =>
          /\ event'.op = "start" /\ event'.res = "StateError"
          /\ UNCHANGED <<state, notes, instanceInfo, instCount, procs, minioProcess,
                         killerProcess, staleTimers, startPc, startInst, startFresh,
                         startErr, stops, stopPc, dataPathExists, tmpDirs,
                         ensurePc>>
          /\ startPc # "none" => UNCHANGED startFrom
          /\ stopPc # "none" => UNCHANGED <<stopOpts, stopTargets>>]_vars

\* C6 witness: start() was refused while the first start() waits for readiness
StartRefusedWhileLaunching ==
    /\ event.call = "start" /\ event.res = "StateError"
    /\ state = starting /\ startPc = "launch" /\ AliveProcs # {}

\* C7: when a start() called in state new or stopped resolves, the last two
\* notifications observers received are starting and running
StartingThenRunning ==
    (StartResolvedNow /\ startFrom \in {new, stopped}) =>
        LastTwo(notes) = <<starting, running>>

\* C8: every notification announces a change (no two consecutive
\* notifications carry the same state) and the last one carries the state
OneNotificationPerChange ==
    /\ notes # <<>> => notes[Len(notes)] = state
    /\ \A j \in 1 .. Len(notes) - 1 : notes[j] # notes[j + 1]

PipelineErrors ==
    {"ProvisionError", "SpawnError", "StartBinaryFailedError", "StdoutInstanceError",
     "UnexpectedCloseError", "ExitedBeforeReadyError", "LaunchTimeoutError",
     "TypeError", "ENOENT"}

\* C9: when the start pipeline fails, start() rejects with the error the
\* pipeline raised and the state is stopped
StartFailureEndsStopped ==
    (event.op = "start" /\ event.res \notin {"resolved", "StateError", "AssertionError"}) =>
        /\ event.res \in PipelineErrors
        /\ state = stopped

CleanedUnforcedNow ==
    /\ event.op = "stop" /\ event.res = "true"
    /\ stopOpts.doCleanup /\ ~stopOpts.force

\* C11: after stop({doCleanup: true, force: false}) has returned, a supplied
\* dataPath still exists and no minio-tst- directory the supervisor created
\* exists any more
SuppliedKeptTmpRemoved ==
    CleanedUnforcedNow =>
        /\ dataPathSupplied => dataPathExists
        /\ tmpDirs = {}

\* C12: ensureInstance() called in state running returns the instance info;
\* one that waited in state starting resolves, with the instance info, only
\* when the next notification is running and fails otherwise; one called
\* in state new or stopped returns the instance info once its start()
\* has resolved
EnsureInstanceContract ==
    /\ (event.call = "ensureInstance" /\ event.op = "none" /\ ensured # "none")
          => ensured = "info"
    /\ (event.op = "start" /\ event.res = "resolved" /\ ensured # "none")
          => ensured = "info"
    /\ ensured = "info" => state = running /\ instanceInfo.def
    /\ ensured = "Error" => state # running

(***************************************************************************)
(* Claims on the port of MinioServer                                       *)
(***************************************************************************)

\* a start(forceSamePort = true) that directly followed the stop of a run
\* has resolved
ForcedRestartResolved ==
    lastStart.res = "resolved" /\ lastStart.force /\ lastStart.prev # 0

\* C13 as stated: when start(true) after start(); stop() resolves, the state
\* is running and instanceInfo.port is the port the first run reported
SamePortWhenForced ==
    ForcedRestartResolved =>
        portState = running /\ portInfo.port = lastStart.prev

\* C13 amended: when start(true) after start(); stop() resolves, the state
\* is running; instanceInfo.port is the port the first run reported when
\* the stop kept _instanceInfo (doCleanup false), and opts.instance.port,
\* when one was given, when the stop cleaned up
SamePortWhenInstanceKept ==
    ForcedRestartResolved =>
        /\ portState = running
        /\ ~lastStart.fresh => portInfo.port = lastStart.prev
        /\ (lastStart.fresh /\ optsPort # 0) => portInfo.port = optsPort

\* C13 witness: a forced restart of a kept instance resolved on the port
\* of the first run although another program had taken that port
ForcedRestartKeptPort ==
    /\ ForcedRestartResolved /\ ~lastStart.fresh
    /\ portInfo.port = lastStart.prev /\ lastStart.wantedBusy

\* C14: in state running getUri returns mongodb://<ip>:<port>/<db> whose
\* port is instanceInfo.port, and the server process is bound to that port
UriNamesBoundPort ==
    (portState = running /\ uri # <<>>) =>
        /\ \E ip \in {"127.0.0.1", "10.0.0.1"} : \E db \in {"", "db"} :
              uri = <<"mongodb://", ip, ":", portInfo.port, "/", db>>
        /\ portInfo.port = bound

\* C15: a first start() whose opts.instance.port is taken by another program
\* selects another port without forceSamePort and reports it in
\* instanceInfo.port when it resolves; with forceSamePort it keeps the
\* port and fails with StdoutInstanceError
OccupiedPortHandling ==
    (lastStart.fresh /\ lastStart.wanted # 0 /\ lastStart.wantedBusy
       /\ lastStart.res # "none") =>
        IF lastStart.force
        THEN instPort = lastStart.wanted /\ lastStart.res = "StdoutInstanceError"
        ELSE /\ instPort # lastStart.wanted
             /\ lastStart.res = "resolved" => portInfo = [def |-> TRUE, port |-> instPort]

(***************************************************************************)
(* Claims on stale lockfiles, repeated unlock and provisioning             *)
(***************************************************************************)
\* the marker file records a process that is not alive
Stale == lockContent # NoFile /\ ~isAlive(lockContent.pid)

\* C16: a marker file whose recorded pid is not alive is reclaimed: a caller
\* of the running process that is in lock() or waits in waitForLock() while
\* the file is stale leads to the file holding a record of that process.
StaleLockReclaimed ==
    \A c \in Callers(MainProc) :
        (Stale /\ pc[MainProc][c] \in {"lock", "waitForLock"})
            ~> (lockContent # NoFile /\ lockContent.pid = MainProc)

\* C17: a second unlock() on a handle returns without throwing, without
\* entering unlockCleanup (unlink, unlock event) and without changing the
\* marker file, the registries or the handle.
SecondUnlockNoOp ==
    [][\A p \in Procs : \A c \in Callers(p) :
          (pc[p][c] = "unlockAgain" /\ pc'[p][c] # "unlockAgain") =>
              /\ pc'[p][c] = "unlockedAgain"
              /\ UNCHANGED <<lockContent, files, handle, unlockStatus>>]_vars

\* C18: the getMinioPath that ends with Md5CheckFailedError installs nothing:
\* the binary path is as it was before (absent unless another provisioning
\* installed it), the version -> path cache of the process gets no entry,
\* and only a caller with checkMD5 and a differing archive fails this way.
Md5MismatchAborts ==
    [][\A p \in Procs : \A c \in Callers(p) :
          (failed[p][c] = "none" /\ failed'[p][c] = "Md5CheckFailedError") =>
              /\ pc[p][c] = "http" /\ pc'[p][c] = "unlock"
              /\ archive' = "differing"
              /\ UNCHANGED <<binaryOnDisk, binaryCache>>]_vars

\* C18 witness: download() threw Md5CheckFailedError, there is no binary at
\* the target path and no cache entry.
Md5FailedNothingInstalled ==
    \E p \in Procs : \E c \in Callers(p) :
        /\ pc[p][c] = "done" /\ result[p][c] = "Md5CheckFailedError"
        /\ ~binaryOnDisk
        /\ binaryCache[p] = Undefined

\* the version is provisioned for process p: cached or installed on disk
Provisioned(p) == binaryCache[p] # Undefined \/ binaryOnDisk

\* C19: a getPath for a provisioned version returns the path of the binary
\* without locking or downloading and leaves the binary as it is; inside
\* download(), a cached or installed version is never downloaded again; a
\* provisioned version stays provisioned under the same path.
ProvisionIdempotent ==
    [][/\ binaryOnDisk => binaryOnDisk'
       /\ \A p \in Procs : \A c \in Callers(p) :
            /\ binaryCache[p] # Undefined => binaryCache'[p] = BinPath
            /\ (Provisioned(p) /\ pc[p][c] = "idle" /\ pc'[p][c] \notin {"idle", "lock"}) =>
                  /\ pc'[p][c] = "located" /\ result'[p][c] = BinPath
                  /\ UNCHANGED <<binaryOnDisk, httpBy, archive, lockContent>>
            /\ (pc[p][c] # "http" /\ pc'[p][c] = "http") => ~Provisioned(p)]_vars

\* C19 witness: after one process provisioned the version by a download, a
\* getPath of it and a getPath of the other process returned the same path
\* with one download in all.
SecondProvisionSamePath ==
    \E c \in Callers(MainProc) : \E d \in Callers(MainProc) \ {c} :
      \E q \in Procs \ {MainProc} : \E e \in Callers(q) :
        /\ httpBy = {<<MainProc, c>>}
        /\ pc[MainProc][c] = "done" /\ result[MainProc][c] = BinPath
        /\ pc[MainProc][d] = "located" /\ result[MainProc][d] = BinPath
        /\ pc[q][e] = "located" /\ result[q][e] = BinPath

\* C23: the unlock event that a holder's unlockCleanup emits wakes every
\* caller of the same process that waits in waitForLock for the path: in
\* the step that ends the holder's unlock(), each such waiter leaves its wait
\* and goes to its recheck, without its 3 second poll.
UnlockWakesWaiters ==
    [][\A p \in Procs : \A c \in Callers(p) : \A d \in Callers(p) \ {c} :
          (pc[p][c] = "unlockCleanup" /\ pc'[p][c] = "return"
             /\ pc[p][d] = "waitForLock") => pc'[p][d] = "recheck"]_vars

\* the marker file records another acquisition than the one of c's handle:
\* another uuid of the same process, or another process that is alive
OwnedByAnother(p, c) ==
    /\ lockContent # NoFile
    /\ IF lockContent.pid = p
       THEN lockContent.uuid # handle[p][c].uuid
       ELSE isAlive(lockContent.pid)

Located(req, sysOk) ==
    LET P == generatePaths(req) IN
    IF sysOk THEN <<TRUE, req.systemBinary>>
    ELSE IF pathExists(P.resolveConfig, req) THEN <<TRUE, P.resolveConfig>>
    ELSE IF pathExists(P.legacyHomeCache, req) THEN <<TRUE, P.legacyHomeCache>>
    ELSE IF pathExists(P.modulesCache, req) THEN <<TRUE, P.modulesCache>>
    ELSE IF pathExists(P.relative, req) THEN <<TRUE, P.relative>>
    ELSE IF P.resolveConfig # <<>> THEN <<FALSE, P.resolveConfig>>
    ELSE IF req.preferGlobal THEN <<FALSE, P.legacyHomeCache>>
    ELSE IF P.modulesCache # <<>> THEN <<FALSE, P.modulesCache>>
    ELSE <<FALSE, P.relative>>

\* the request as locateBinary reads it: the DOWNLOAD_DIR configuration value
\* goes before opts.downloadDir (generateDownloadPath called on its own puts
\* opts.downloadDir first)
AsLocateReads(req) ==
    [req EXCEPT !.downloadDir = IF req.envDownloadDir # "" THEN req.envDownloadDir ELSE @]

\* the system binary is set and exists
SystemBinaryExists(req) == req.systemBinary # <<>> /\ req.sys # "missing"

\* C20 as stated: generateDownloadPath answers the system binary if one is
\* set and exists, otherwise the first existing candidate, otherwise
\* not-found with the preferred download path; locateBinary returns the path
\* of that answer if something was found and undefined if not.
LocatorAsStated ==
    /\ locPc = "generated" =>
          <<locOut.found, locOut.path>> = Located(locReq, SystemBinaryExists(locReq))
    /\ locPc = "located" =>
          LET e == Located(AsLocateReads(locReq), SystemBinaryExists(locReq)) IN
          IF e[1] THEN locOut.kind = "path" /\ locOut.path = e[2]
          ELSE locOut.kind = "undefined"

\* C20 amended: generateDownloadPath answers the system binary if one is
\* set, exists and passes checkBinaryPermissions, otherwise the first
\* existing candidate, otherwise not-found with the preferred download path.
\* locateBinary with a system binary set returns it if it passes
\* checkBinaryPermissions and throws NoSystemBinaryFoundError if not; without
\* one it returns the cache entry of the version if there is one, else the
\* first existing candidate, which it caches, else undefined.
LocatorContract ==
    /\ [](locPc = "generated" =>
            <<locOut.found, locOut.path>> = Located(locReq, locReq.sys = "usable"))
    /\ [][(locPc = "set" /\ locPc' = "located") =>
            LET e == Located(AsLocateReads(locReq), FALSE) IN
            IF locReq.systemBinary # <<>>
            THEN /\ IF locReq.sys = "usable"
                    THEN locOut'.kind = "path" /\ locOut'.path = locReq.systemBinary
                    ELSE locOut'.kind = "NoSystemBinaryFoundError"
                 /\ UNCHANGED dryCache
            ELSE IF dryCache # <<>>
            THEN locOut'.kind = "path" /\ locOut'.path = dryCache /\ UNCHANGED dryCache
            ELSE IF e[1]
            THEN locOut'.kind = "path" /\ locOut'.path = e[2] /\ dryCache' = e[2]
            ELSE locOut'.kind = "undefined" /\ UNCHANGED dryCache]_vars

\* C20 witness: with a system binary that exists but is refused by
\* checkBinaryPermissions and a binary in the home cache and in the
\* cwd-relative directory, generateDownloadPath answered the home cache path.
SystemBinaryRefusedFallsThrough ==
    /\ locPc = "generated"
    /\ locReq.sys = "unusable"
    /\ locReq.existing = {"homeCache", "cwd"}
    /\ locOut.found /\ locOut.path = combineBinaryName("homeCache", binaryName)

(***************************************************************************)
(* Claims on MinioBinaryDownloadUrl                                        *)
(***************************************************************************)
\* the request came from an ARM64 host: os.arch() answers "arm64", a caller
\* may also name the architecture "aarch64"
Arm64Host == urlOpts.arch \in {"arm64", "aarch64"}

\* C21: the RHEL distro string asked for an ARM64 host with a release below
\* 8.2 fails with KnownVersionIncompatibilityError whatever the version; for
\* ARM64, release 8.2 and version 4.4.2 a string is returned.
Arm64RhelIncompatibility ==
    (urlPc = "named" /\ Arm64Host) =>
        /\ (urlOut.release # <<>> /\ semverLt(urlOut.release, <<8, 2, 0>>))
              => urlOut.error = "KnownVersionIncompatibilityError"
        /\ (urlOut.release = <<8, 2, 0>> /\ urlOpts.version.text = "4.4.2")
              => urlOut.error = "none"

\* the platform values translatePlatform gives for Windows
WindowsPlatforms == {"windows", "win32"}

\* C22: the constructor's architecture is amd64 for x64, amd64 and x86_64,
\* arm64 for arm64, aarch64 for aarch64, i686 for ia32 on linux and i386 for
\* ia32 on either Windows platform value; any other architecture fails with
\* UnknownArchitectureError.
ArchTranslation ==
    LET platform == translatePlatform(urlOpts.platform, urlOpts.version)
        arch == urlOpts.arch
    IN (urlPc \in {"constructed", "threw"} /\ platform # "UnknownPlatformError") =>
          IF arch \in {"x64", "amd64", "x86_64"} THEN urlThis.arch = "amd64"
          ELSE IF arch = "arm64" THEN urlThis.arch = "arm64"
          ELSE IF arch = "aarch64" THEN urlThis.arch = "aarch64"
          ELSE IF arch = "ia32" /\ platform = "linux" THEN urlThis.arch = "i686"
          ELSE IF arch = "ia32" /\ platform \in WindowsPlatforms THEN urlThis.arch = "i386"
          ELSE urlThis.error = "UnknownArchitectureError"

\* a provision of the version has copied a file to the target path and has
\* not finished: its extract has not returned
Unfinished == {pd \in Procs \X (1 .. MaxCallers) :
                 pd[2] \in Callers(pd[1]) /\ pc[pd[1]][pd[2]] = "extract"}

\* C30: the version -> path cache of a process gets its entry only in a
\* step in which no provision of the version is unfinished afterwards (the
\* one that finishes in the step may be the writer's) and never from a
\* caller whose provision failed; and a caller that rechecks the cache
\* inside download() holds a handle on the lock.
CacheEntryOnlyAfterProvision ==
    [][\A p \in Procs :
          /\ (binaryCache[p] = Undefined /\ binaryCache'[p] # Undefined) =>
                /\ binaryOnDisk'
                /\ Unfinished' = {}
                /\ \A c \in Callers(p) :
                      pc'[p][c] # pc[p][c] => failed[p][c] = "none"
          /\ \A c \in Callers(p) :
                pc'[p][c] = "locked" => handle'[p][c].file = LockPath]_vars

\* ------------------------------------------------------------------------
\* Claims on MinioInstance and killProcess
\* ------------------------------------------------------------------------

\* the stop() run by the instanceError listener of slot s returns in this
\* step: the killProcess it awaited has resolved and nothing is left to kill
ListenerStopReturns(s) == Resumable(s) /\ stops'[s].phase = "idle"

\* C25: when the stop() that the instanceError listener of an instance ran
\* returns, the instance references neither a server process nor a reaper
\* process, and no child process of the instance is alive.
ErrorStopTerminatesBoth ==
    [][\A s \in ListenerSlots :
          ListenerStopReturns(s) =>
              LET i == stops[s].inst IN
              /\ minioProcess'[i] = 0 /\ killerProcess'[i] = 0
              /\ \A k \in 1 .. Len(procs') :
                    procs'[k].inst = i => ~ProcAlive(procs', k)]_vars

\* the start() in flight resolves in this step
StartResolves == event'.op = "start" /\ event'.res = "resolved"

\* this step delivers a readiness line of a server process of instance i
ReadyFires(i) == \E k \in ServerProcs : procs[k].inst = i /\ ProcReady(k)

\* this step delivers to instance i one of the three events that reject a
\* launch promise: an instanceError, a process close or a launch timeout
RejectFires(i) ==
    \/ \E k \in ServerProcs :
          /\ procs[k].inst = i
          /\ ProcFatalLine(k) \/ \E nonZero \in BOOLEAN : ProcClose(k, nonZero)
    \/ startInst = i /\ LaunchTimeout
    \/ StaleTimeout(i)

\* the errors a launch promise rejects with
LaunchErrors ==
    {"StdoutInstanceError", "UnexpectedCloseError", "ExitedBeforeReadyError",
     "LaunchTimeoutError"}

\* the launch promise of the start() in flight has rejected with err and
\* start() has not settled yet or settles with it in this step
RejectedWith(pcNow, errNow, ev, err) ==
    \/ pcNow = "catch" /\ errNow = err
    \/ pcNow = "none" /\ ev.op = "start" /\ ev.res = err

\* C26: a start() whose launch is pending resolves only in a step that
\* delivers a readiness line to its instance; a step that delivers an
\* instanceError, a process close or a launch timeout to that instance
\* rejects the launch with one of the launch errors; and once the launch has
\* rejected, no step, a later readiness line included, makes the start()
\* resolve or changes the error it holds.
StartSettlesOnFirstEvent ==
    [][/\ startPc = "launch" =>
            /\ StartResolves => ReadyFires(startInst)
            /\ RejectFires(startInst) =>
                  \E err \in LaunchErrors :
                      RejectedWith(startPc', startErr', event', err)
       /\ startPc = "catch" =>
            /\ ~StartResolves
            /\ \/ startPc' = "catch" /\ startErr' = startErr
               \/ RejectedWith(startPc', startErr', event', startErr)
               \/ RejectedWith(startPc', startErr', event', "KillError")]_vars

\* C26 witness: the launch rejected on an instanceError and a readiness line
\* arrived afterwards, while the catch handler of start() is still stopping
\* the instance
ReadinessAfterRejection ==
    /\ startPc = "catch"
    /\ startErr \in {"StdoutInstanceError", "LaunchTimeoutError"}
    /\ isInstanceReady[startInst]

\* C27: a close event of a server process is handled once (the process is
\* gone afterwards). For an unexpected exit code the instanceError listener
\* has run (isInstanceReady is false) and a launch pending on the instance has
\* rejected with UnexpectedCloseError, the error emitted before
\* instanceClosed. For exit code zero no instanceError listener has run
\* (isInstanceReady and the listeners' stop() executions are as before) and a
\* pending launch has rejected with the error of its instanceClosed listener.
CloseEmitsErrorThenClosed ==
    [][\A k \in ServerProcs : \A nonZero \in BOOLEAN :
          ProcClose(k, nonZero) =>
              LET i == procs[k].inst IN
              /\ procs'[k].st = "gone"
              /\ nonZero =>
                    /\ ~isInstanceReady'[i]
                    /\ Pending(Cur, i) =>
                          RejectedWith(startPc', startErr', event', "UnexpectedCloseError")
              /\ ~nonZero =>
                    /\ isInstanceReady'[i] = isInstanceReady[i]
                    /\ \A s \in ListenerSlots : stops'[s] = stops[s]
                    /\ Pending(Cur, i) =>
                          RejectedWith(startPc', startErr', event', "ExitedBeforeReadyError")]_vars

\* C27 witness: the server process of a launching instance closed with an
\* unexpected code; the launch rejected with UnexpectedCloseError and the
\* catch handler of start() waits for the reaper to exit
UnexpectedCloseRejectedLaunch ==
    /\ startPc = "catch" /\ startErr = "UnexpectedCloseError"
    /\ minioProcess[startInst] = 0
    /\ killerProcess[startInst] # 0
    /\ \E k \in ServerProcs : procs[k].inst = startInst /\ procs[k].st = "gone"

\* slot s begins a killProcess wait in this step: on a child it was not
\* waiting for
KillBegins(s) ==
    /\ Waiting(s)'
    /\ ~Waiting(s) \/ stops'[s].target # stops[s].target

\* the killProcess wait of slot s on its child ends in this step
KillEnds(s) ==
    /\ Waiting(s)
    /\ ~Waiting(s)' \/ stops'[s].target # stops[s].target

\* C28: killProcess waits only for a child that is alive and has sent it
\* SIGINT when the wait begins; the signal of a wait becomes SIGKILL only
\* from SIGINT and only while the child has not exited; a wait that ends
\* while the child is alive (the rejection) ends after SIGKILL; when the
\* child of some wait has exited the next step is a wait ending on an exited
\* child (the resolution follows the exit at once); and a reference to a
\* child that is not alive is never waited for.
KillProcessTwoPhase ==
    [][/\ \A s \in Slots :
            /\ KillBegins(s) =>
                  /\ stops'[s].sub = "SIGINT"
                  /\ ProcAlive(procs, stops'[s].target)
            /\ (Waiting(s)' /\ ~KillBegins(s) /\ stops'[s].sub # stops[s].sub) =>
                  /\ stops[s].sub = "SIGINT" /\ stops'[s].sub = "SIGKILL"
                  /\ ProcAlive(procs, stops[s].target)
            /\ (KillEnds(s) /\ ProcAlive(procs, stops[s].target)) =>
                  stops[s].sub = "SIGKILL"
       /\ ~Settled => \E s \in Slots : Resumable(s) /\ KillEnds(s)]_vars

\* C28 witness: stop() threw because the server process did not exit within
\* 10 s of SIGINT nor within 10 s of SIGKILL; the process is alive and still
\* referenced
KillRejectedAfterSigkill ==
    /\ event.op = "stop" /\ event.res = "KillError"
    /\ instanceInfo.def
    /\ minioProcess[instanceInfo.inst] # 0
    /\ ProcAlive(procs, minioProcess[instanceInfo.inst])

\* ------------------------------------------------------------------------
\* Claims on MinioServer.cleanup
\* ------------------------------------------------------------------------

\* the supervisor is in state stopped and its instance, if it has one,
\* references no server process
CleanupAllowed ==
    /\ state = stopped
    /\ instanceInfo.def => minioProcess[instanceInfo.inst] = 0

\* C29: a cleanup({doCleanup: true, force}) called when the supervisor is
\* not in state stopped, or when its instance still references a server
\* process, throws in the same step, removes no directory, sends no
\* notification and leaves state and instanceInfo as they were.
CleanupRefused ==
    [][\A force \in BOOLEAN :
          (CallCleanup(TRUE, force) /\ ~CleanupAllowed) =>
              /\ event'.op = "cleanup"
              /\ event'.res = IF state # stopped THEN "StateError" ELSE "CleanupError"
              /\ UNCHANGED <<state, instanceInfo, notes, tmpDirs, dataPathExists>>]_vars

\* C29 witness: cleanup was refused in state stopped because the instance
\* references a server process, and the temporary data directory the
\* cleanup would have removed exists
CleanupRefusedWhileReferenced ==
    /\ event.op = "cleanup" /\ event.res = "CleanupError"
    /\ state = stopped
    /\ instanceInfo.def /\ instanceInfo.tmpDir
    /\ minioProcess[instanceInfo.inst] # 0
    /\ instanceInfo.inst \in tmpDirs

\* ------------------------------------------------------------------------
\* Claims on MinioServer.start, stop and ensureInstance
\* ------------------------------------------------------------------------

\* the embedding program calls start() in this step
StartCalled == \E force \in BOOLEAN : CallStart(force)

\* C31: a start() called in a state other than new and stopped throws in the
\* same step (StateError, or the error of the assertion on minioProcess),
\* sends no notification, leaves the state as it is and spawns no process.
StartThrowsUnlessNewOrStopped ==
    [][(StartCalled /\ state \notin {new, stopped}) =>
          /\ event'.op = "start"
          /\ event'.res \in {"StateError", "AssertionError"}
          /\ UNCHANGED <<state, notes, procs, startPc>>]_vars

\* C32: when the state is running and every handler has run (no stop() of
\* the instance is about to resume), the instance of _instanceInfo references
\* a server process whose close event has not been delivered.
RunningHoldsLiveServer ==
    (state = running /\ Settled) =>
        /\ instanceInfo.def
        /\ minioProcess[instanceInfo.inst] # 0
        /\ procs[minioProcess[instanceInfo.inst]].st # "gone"

\* ------------------------------------------------------------------------
\* Further claims on LockFile and MinioBinaryDownload
\* ------------------------------------------------------------------------

\* caller c of process p is between the checkLock that found the path
\* available and the end of its unlock()
Acquiring(p, c) ==
    Holds(p, c) \/ pc[p][c] \in {"createLock", "writeFile", "filesAdd"}

\* C33: in a running process where a caller's unlock() has completed and no
\* caller is acquiring or holding the lock, the checkLock of a lock() on the
\* path does not answer that the process itself holds it.
UnlockFreesRegistry ==
    \A p \in Procs :
        (/\ alive[p]
         /\ \E c \in Callers(p) : Returned(p, c)
         /\ \A d \in Callers(p) : ~Acquiring(p, d)) =>
            checkLock(LockReceiver(p), p, NoUuid) # lockedSelf

\* ------------------------------------------------------------------------
\* Further claims on MinioServer and MinioInstance
\* ------------------------------------------------------------------------

\* MinioServer.start() has rejected in this step with the error of its
\* launch promise
StartRejected == event.op = "start" /\ event.res \in LaunchErrors

\* a MinioInstance.stop() of instance i is in progress
BeingStopped(i) == \E s \in Slots : Waiting(s) /\ stops[s].inst = i

\* C34: when start() has rejected with the error of its launch promise,
\* every child process that is still alive belongs to an instance whose
\* stop() is in progress (so that it is terminated once the kill returns).
RejectedStartStopsChildren ==
    StartRejected =>
        \A k \in 1 .. Len(procs) :
            ProcAlive(procs, k) => BeingStopped(procs[k].inst)

\* a stop() or a cleanup() called with doCleanup true has returned in this
\* step without an error
CleanedNow ==
    /\ stopOpts.doCleanup
    /\ \/ event.op = "stop" /\ event.res = "true"
       \/ event.op = "cleanup" /\ event.res = "returned"

\* C35: once a stop() or cleanup() with doCleanup true has returned, none of
\* the minio-tst- directories the supervisor created exists, those created
\* for a start() that failed included.
CleanupRemovesEveryTmpDir == CleanedNow => tmpDirs = {}

\* the supervisor driven by a program that calls stop() only while a start()
\* is in progress
RaceNext ==
    \/ \E force \in BOOLEAN : CallStart(force)
    \/ StartPrepare
    \/ \E outcome \in LaunchOutcomes :
          StartLaunch(outcome)
    \/ \E k \in 1 .. Len(procs) : Pending(Cur, procs[k].inst) /\ ProcReady(k)
    \/ \E k \in 1 .. Len(procs) : ProcFatalLine(k)
    \/ \E k \in 1 .. Len(procs) : ProcExit(k)
    \/ \E k \in 1 .. Len(procs) : \E nonZero \in BOOLEAN : ProcClose(k, nonZero)
    \/ LaunchTimeout
    \/ \E i \in InstIds : StaleTimeout(i)
    \/ \E s \in Slots : KillResume(s)
    \/ \E s \in Slots : KillTimeout(s)
    \/ \E s \in Slots : KillReject(s)
    \/ \E doCleanup \in BOOLEAN : \E force \in BOOLEAN :
          startPc # "none" /\ CallStop(doCleanup, force)
    \/ CleanupFinish

RaceSpec == Init /\ [][RaceNext]_vars

\* the supervisor is in state running and its instance references a server
\* process that is alive
RunningWithLiveServer ==
    /\ state = running
    /\ instanceInfo.def
    /\ minioProcess[instanceInfo.inst] # 0
    /\ ProcAlive(procs, minioProcess[instanceInfo.inst])

\* C36: when the only start() made so far and a stop() issued while it was
\* in progress have both settled, the supervisor is not in state running
\* with a live server process.
StopDuringStartNotLost ==
    (startCalls = 1 /\ stopCalls = 1 /\ startPc = "none" /\ stopPc = "none") =>
        ~RunningWithLiveServer

\* C37: when start() has rejected because spawn() threw, no launch timer of
\* any instance is left armed (so that no timeout can emit an instanceError
\* after the start() has settled).
LaunchTimerCleared ==
    (event.op = "start" /\ event.res = "SpawnError") =>
        \A i \in InstIds : staleTimers[i] = 0

\* some provision has failed with Md5CheckFailedError and the archive it
\* rejected is in the download directory
RejectedArchiveKept ==
    /\ archive = "differing"
    /\ \E q \in Procs : \E d \in Callers(q) : failed[q][d] = "Md5CheckFailedError"

\* C38: a getMinioPath that runs its startDownload after a provision failed
\* with an MD5 mismatch performs the HTTP GET of the archive itself instead
\* of taking the archive that was rejected.
RejectedArchiveNotReused ==
    [][\A p \in Procs : \A c \in Callers(p) :
          (RejectedArchiveKept /\ pc[p][c] = "http" /\ pc'[p][c] # "http") =>
              <<p, c>> \in httpBy']_vars

\* createLock when utils.mkdir or fspromises.writeFile throws inside
\* mutex.runExclusive: the mutex is released, the catch block ignores every
\* error that is not a RepeatError, and new LockFile(file, uuid) is returned
CreateLockWriteFails(p, c) ==
    /\ alive[p] /\ pc[p][c] = "writeFile"
    /\ mutexOwner' = [mutexOwner EXCEPT ![p] = 0]
    /\ files' = [files EXCEPT ![Handle(p, c)] = {}]
    /\ handle' = [handle EXCEPT ![p][c] = [file |-> LockPath, uuid |-> NewUuid(p, c)]]
    /\ Goto(p, c, "locked")
    /\ UNCHANGED <<alive, lockContent, unlockStatus,
                   binaryCache, binaryOnDisk, httpBy, failed, archive, result>>

\* the processes in which creating the directory or writing the marker
\* file may fail
FaultyProcs == Procs \ {MainProc}

\* the provisioning callers when the directory creation or the marker write
\* of the contending process may fail
FaultyLockNext ==
    \/ LockNext
    \/ \E p \in FaultyProcs : \E c \in Callers(p) : CreateLockWriteFails(p, c)

FaultyLockSpec == Init /\ [][FaultyLockNext]_vars

\* C39: a step in which lock(path) returns a handle to a caller is the step
\* of createLock that follows the write of the marker file, and after it
\* the path is in the registry of the instance lock() was called on.
HandleOnlyAfterMarkerWritten ==
    [][\A p \in Procs : \A c \in Callers(p) :
          (handle[p][c].file # LockPath /\ handle'[p][c].file = LockPath) =>
              /\ pc[p][c] = "filesAdd"
              /\ LockPath \in files'[LockReceiver(p)]]_vars

\* the supervisor driven by concurrent callers of ensureInstance() alone
EnsureNext ==
    \/ \E e \in EnsureIds : EnsureInstance(e)
    \/ StartPrepare
    \/ \E outcome \in LaunchOutcomes : StartLaunch(outcome)
    \/ \E k \in 1 .. Len(procs) : Pending(Cur, procs[k].inst) /\ ProcReady(k)
    \/ \E k \in 1 .. Len(procs) : ProcFatalLine(k)
    \/ \E k \in 1 .. Len(procs) : ProcExit(k)
    \/ \E k \in 1 .. Len(procs) : \E nonZero \in BOOLEAN : ProcClose(k, nonZero)
    \/ LaunchTimeout
    \/ \E i \in InstIds : StaleTimeout(i)
    \/ \E s \in Slots : KillResume(s)
    \/ \E s \in Slots : KillTimeout(s)
    \/ \E s \in Slots : KillReject(s)

EnsureSpec == Init /\ [][EnsureNext]_vars

\* the only start() made so far has resolved
FirstStartSucceeded == startCalls = 1 /\ state = running /\ startPc = "none"

\* C40: of the concurrent ensureInstance() calls on a new supervisor, one
\* that finds the state starting or running calls no start() and spawns
\* nothing; and once the only start() made has resolved there is exactly
\* one server process, no caller is left waiting, and every call that has
\* settled returned the instanceInfo of the one instance.
ConcurrentEnsureStartsOnce ==
    [][/\ \A e \in EnsureIds :
            (EnsureInstance(e) /\ state \in {starting, running}) =>
                UNCHANGED <<startCalls, procs, instCount>>
       /\ FirstStartSucceeded' =>
            /\ Cardinality(ServerProcs') = 1
            /\ \A e \in EnsureIds :
                  /\ ensures'[e].pc = "none"
                  /\ ensures'[e].res \in {"none", "info"}
                  /\ ensures'[e].res = "info" =>
                        ensures'[e].inst = instanceInfo'.inst]_vars

\* C40 witness: three concurrent calls, one start(): the first call awaited
\* the start(), the two others waited on the state change, and all three
\* hold the instanceInfo of the single instance
AllWaitersServed ==
    /\ FirstStartSucceeded
    /\ Cardinality(ServerProcs) = 1
    /\ \A e \in EnsureIds : ensures[e].res = "info" /\ ensures[e].inst = instanceInfo.inst
    /\ Cardinality({e \in EnsureIds : ensures[e].how = "started"}) = 1
    /\ Cardinality({e \in EnsureIds : ensures[e].how = "listened"}) = MaxConcurrent - 1

====
